---- MODULE Spec2Model ----
(***************************************************************************)
(* MCP servers of salmon-marketplace: the use_notion action dispatcher and  *)
(* its transports, and the Google Calendar + Gmail server.  The Notion     *)
(* server exists in four variants:                                         *)
(*   "index"  - mcp/src/index.ts        (readline loop, exits on close)    *)
(*   "simple" - mcp/src/index-simple.ts (readline loop, no close handler)  *)
(*   "proxy"  - unnamed/part_005        (readline loop, OpenAPI proxy)     *)
(*   "sdk"    - mcp/src/index-sdk.ts    (MCP SDK tool callback)            *)
(* and the Google server is                                                *)
(*   "google" - unnamed/part_004 with the Gmail wrapper of                 *)
(*              mcp/src/config.ts; its client resolves calendar aliases    *)
(*              as skills/google-calendar/SKILL.md describes.              *)
(* Every process starts in "starting": module initialisation and the first *)
(* step of main() decide whether it runs or exits (Startup).               *)
(* JavaScript values are modelled with explicit "undefined" sentinels;     *)
(* messages are sequences of text fragments so that "the message names X"  *)
(* is a membership test.  Pass-through keys no property looks at (filter,  *)
(* sorts, start_cursor, query) appear only in the key sets of requests.    *)
(* For "sdk" the source holds the tool callback and the schema; its stdio  *)
(* transport is the MCP SDK's, so the properties of the reader loop are    *)
(* stated for the three readline variants only.                            *)
(* Event loop: the lines of one input chunk are emitted back to back, so a *)
(* line can be read while resumed handlers are still queued (microq); a    *)
(* settled remote call or the end of input is a later event and finds the  *)
(* queue drained.                                                          *)
(***************************************************************************)
EXTENDS Integers, Sequences, FiniteSets, TLC

\* ---------------------------------------------------------------- bounds
\* longest input stream (number of lines) of the transport specification
MaxLines == 2
\* longest input stream of the dispatch specification (rich argument bags)
MaxCalls == 1
\* number of property keys a create_page property bag may carry
MaxProps == 2

\* ------------------------------------------------------- JavaScript values
\* the value `undefined` of a string-typed argument
UNDEF == "<undefined>"

\* JavaScript truthiness of a string-or-undefined value
Truthy(s) == s # UNDEF /\ s # ""

\* an optional object argument: def = FALSE is `undefined`
NoParent == [def |-> FALSE, key |-> "", id |-> ""]
ParentOf(k, i) == [def |-> TRUE, key |-> k, id |-> i]

\* an optional number argument
NoLimit == [def |-> FALSE, val |-> 0]
LimitOf(n) == [def |-> TRUE, val |-> n]

\* an optional array argument
NoChildren == [def |-> FALSE, val |-> <<>>]
ChildrenOf(s) == [def |-> TRUE, val |-> s]

\* the rich-text title array of a request: undefined, [] or [{text: t}]
NoTitle == [def |-> FALSE, val |-> <<>>]
TitleOf(s) == [def |-> TRUE, val |-> s]

\* the paragraph block built from a content string
ParagraphBlock(content) == <<"paragraph", content>>

\* ---------------------------------------------------------- property values
\* One value of a Notion property bag.  shape is what `typeof` and the
\* null test see; hasPeople is `"people" in value`; isArray is
\* Array.isArray(value.people); extra stands for the other keys of the object.
PropValue(shape, hasPeople, isArray, people, extra) ==
  [shape |-> shape, hasPeople |-> hasPeople, isArray |-> isArray,
   people |-> people, extra |-> extra]

\* { title: [{ text: { content: t } }] }
TitleProp(t) == PropValue("object", FALSE, FALSE, <<>>, <<"title", t>>)

\* an optional property bag: a function from property keys to values
NoProps == [def |-> FALSE, val |-> <<>>]
PropsOf(f) == [def |-> TRUE, val |-> f]

\* { ...f, [k]: v }
PutKey(f, k, v) ==
  [x \in (DOMAIN f) \cup {k} |-> IF x = k THEN v ELSE f[x]]

\* { ...f, ...g }: keys of g win
Spread(f, g) ==
  [x \in (DOMAIN f) \cup (DOMAIN g) |-> IF x \in DOMAIN g THEN g[x] ELSE f[x]]

\* ------------------------------------------------------------ argument bags
\* the `arguments` object of a tools/call with every key undefined
NoArgs ==
  [action |-> UNDEF, database_id |-> UNDEF, page_id |-> UNDEF,
   block_id |-> UNDEF, user_id |-> UNDEF, property_id |-> UNDEF,
   title |-> UNDEF, content |-> UNDEF, parent |-> NoParent,
   properties |-> NoProps, children |-> NoChildren, limit |-> NoLimit]

\* the request object handed to the remote client, every key absent;
\* keys is the set of keys the object literal carries (a key may be carried
\* with the value undefined)
NoSent ==
  [database_id |-> UNDEF, page_id |-> UNDEF, block_id |-> UNDEF,
   user_id |-> UNDEF, property_id |-> UNDEF, title |-> NoTitle,
   content |-> UNDEF, parent |-> NoParent, properties |-> NoProps,
   children |-> NoChildren, page_size |-> NoLimit, limit |-> NoLimit,
   action |-> UNDEF, keys |-> {}]

\* ------------------------------------------------------------------ results
\* outcome of the synchronous part of a tool call: either it threw (msg) or
\* it reached exactly one call `op(sent)` on the remote client
Threw(msg) == [threw |-> TRUE, msg |-> msg, op |-> "", sent |-> NoSent]
Calls(op, sent) == [threw |-> FALSE, msg |-> <<>>, op |-> op, sent |-> sent]

Mentions(msg, s) == \E i \in DOMAIN msg : msg[i] = s

\* the keys an argument bag defines
PresentKeys(a) ==
  {k \in {"action", "database_id", "page_id", "block_id", "user_id",
          "property_id", "title", "content"} : a[k] # UNDEF}
  \cup {k \in {"parent", "properties", "children", "limit"} : a[k].def}

\* { ...a }: every defined key of the argument bag copied into a request
SpreadArgs(a) ==
  [NoSent EXCEPT !.action = a.action, !.database_id = a.database_id,
                 !.page_id = a.page_id, !.block_id = a.block_id,
                 !.user_id = a.user_id, !.property_id = a.property_id,
                 !.title = IF a.title = UNDEF THEN NoTitle
                           ELSE TitleOf(<<a.title>>),
                 !.content = a.content, !.parent = a.parent,
                 !.properties = a.properties, !.children = a.children,
                 !.limit = a.limit, !.keys = PresentKeys(a)]

\* ------------------------------------------------------ SDK server variant
\* enum NotionAction
NotionAction ==
  {"query_database", "create_database", "update_database", "get_database",
   "create_page", "get_page", "update_page", "get_page_property",
   "get_block_children", "append_block_children", "get_block",
   "update_block", "delete_block", "get_user", "list_users", "get_self",
   "get_comments", "create_comment", "search"}

\* faulty requireParam: nothing is required
requireParam_skip(value, param, action) == <<>>

\* requireParam: the thrown message, or <<>> when the value is accepted
requireParam(value, param, action) ==
  IF value = UNDEF \/ value = ""
  THEN <<"\"", param, "\" is required for action \"", action, "\"">>
  ELSE <<>>

\* faulty auto-assignment: empty people lists are left empty
ensurePeopleFieldAutoAssign_never(userId, p) ==
  IF ~Truthy(userId) THEN p
  ELSE IF ~p.def THEN NoProps
  ELSE p

\* faulty auto-assignment: a missing "DRI" key is created for the acting user
ensurePeopleFieldAutoAssign_invents(userId, p) ==
  IF ~Truthy(userId) THEN p
  ELSE IF ~p.def THEN NoProps
  ELSE PropsOf([f \in DOMAIN p.val \cup {"DRI"} |->
         IF f \notin DOMAIN p.val
         THEN PropValue("object", TRUE, TRUE, <<userId>>, <<>>)
         ELSE LET v == p.val[f] IN
              IF v.shape # "object" THEN v
              ELSE IF ~v.hasPeople THEN v
              ELSE IF ~v.isArray \/ Len(v.people) > 0 THEN v
              ELSE [v EXCEPT !.people = <<userId>>]])

\* faulty auto-assignment: the acting user is appended to every people list
ensurePeopleFieldAutoAssign_always(userId, p) ==
  IF ~Truthy(userId) THEN p
  ELSE IF ~p.def THEN NoProps
  ELSE PropsOf([f \in DOMAIN p.val |->
         LET v == p.val[f] IN
         IF v.shape # "object" THEN v
         ELSE IF ~v.hasPeople THEN v
         ELSE IF ~v.isArray THEN v
         ELSE [v EXCEPT !.people = Append(v.people, userId)]])

ensurePeopleFieldAutoAssign(userId, p) ==
  IF ~Truthy(userId) THEN p
  ELSE IF ~p.def THEN NoProps
  ELSE PropsOf([f \in DOMAIN p.val |->
         LET v == p.val[f] IN
         IF v.shape # "object" THEN v
         ELSE IF ~v.hasPeople THEN v
         ELSE IF ~v.isArray \/ Len(v.people) > 0 THEN v
         ELSE [v EXCEPT !.people = <<userId>>]])

\* the properties create_page sends: auto-assignment, then the title fold
CreatePageProps(userId, params) ==
  LET pageProps == ensurePeopleFieldAutoAssign(userId,
                     IF params.properties.def THEN params.properties
                     ELSE PropsOf(<<>>))
  IN IF Truthy(params.title) /\ pageProps.def
        /\ "title" \notin DOMAIN pageProps.val
     THEN PropsOf(PutKey(pageProps.val, "title", TitleProp(params.title)))
     ELSE pageProps

\* faulty default branch: falls through to a call
UnknownAction_ignored(a) == Calls("users.me", NoSent)

\* default: throw new Error(`Unknown action: ${action}`)
UnknownAction(a) == Threw(<<"Unknown action: ", a>>)

\* one required parameter, then the call
Require1(value, param, action, op, sent) ==
  LET m == requireParam(value, param, action)
  IN IF m # <<>> THEN Threw(m) ELSE Calls(op, sent)

\* params.title ? [{ text: { content: params.title } }] : orElse
TitleSent(t, orElse) == IF Truthy(t) THEN TitleOf(<<t>>) ELSE orElse

executeNotionAction(userId, params) ==
  LET a == params.action IN
  CASE a = "query_database" ->
         Require1(params.database_id, "database_id", a, "databases.query",
           [NoSent EXCEPT !.database_id = params.database_id,
                          !.page_size = params.limit,
                          !.keys = {"database_id", "filter", "sorts",
                                    "start_cursor", "page_size"}])
    [] a = "get_database" ->
         Require1(params.database_id, "database_id", a, "databases.retrieve",
           [NoSent EXCEPT !.database_id = params.database_id,
                          !.keys = {"database_id"}])
    [] a = "create_database" ->
         Calls("databases.create",
           [NoSent EXCEPT !.parent = params.parent,
                          !.title = TitleSent(params.title, TitleOf(<<>>)),
                          !.properties = params.properties,
                          !.keys = {"parent", "title", "properties"}])
    [] a = "update_database" ->
         Require1(params.database_id, "database_id", a, "databases.update",
           [NoSent EXCEPT !.database_id = params.database_id,
                          !.title = TitleSent(params.title, NoTitle),
                          !.properties = params.properties,
                          !.keys = {"database_id", "title", "properties"}])
    [] a = "create_page" ->
         LET pageProps == CreatePageProps(userId, params) IN
         IF params.parent.def
         THEN Calls("pages.create",
                [NoSent EXCEPT !.parent = params.parent,
                               !.properties = pageProps,
                               !.keys = {"parent", "properties"}])
         ELSE Require1(params.database_id, "database_id", a, "pages.create",
                [NoSent EXCEPT
                   !.parent = ParentOf("database_id", params.database_id),
                   !.properties = pageProps,
                   !.keys = {"parent", "properties"}])
    [] a = "get_page" ->
         Require1(params.page_id, "page_id", a, "pages.retrieve",
           [NoSent EXCEPT !.page_id = params.page_id, !.keys = {"page_id"}])
    [] a = "update_page" ->
         Require1(params.page_id, "page_id", a, "pages.update",
           [NoSent EXCEPT !.page_id = params.page_id,
                          !.properties = params.properties,
                          !.keys = {"page_id", "properties"}])
    [] a = "get_page_property" ->
         LET m == requireParam(params.page_id, "page_id", a) IN
         IF m # <<>> THEN Threw(m)
         ELSE Require1(params.property_id, "property_id", a,
                "pages.properties.retrieve",
                [NoSent EXCEPT !.page_id = params.page_id,
                               !.property_id = params.property_id,
                               !.keys = {"page_id", "property_id"}])
    [] a = "get_block_children" ->
         Require1(params.block_id, "block_id", a, "blocks.children.list",
           [NoSent EXCEPT !.block_id = params.block_id,
                          !.page_size = params.limit,
                          !.keys = {"block_id", "start_cursor", "page_size"}])
    [] a = "append_block_children" ->
         LET c0 == IF params.children.def THEN params.children.val ELSE <<>>
             children == IF Truthy(params.content) /\ Len(c0) = 0
                         THEN <<ParagraphBlock(params.content)>> ELSE c0
             target == IF params.block_id # UNDEF THEN params.block_id
                       ELSE params.page_id
         IN Require1(target, "block_id or page_id", a,
              "blocks.children.append",
              [NoSent EXCEPT !.block_id = target,
                             !.children = ChildrenOf(children),
                             !.keys = {"block_id", "children"}])
    [] a = "get_block" ->
         Require1(params.block_id, "block_id", a, "blocks.retrieve",
           [NoSent EXCEPT !.block_id = params.block_id, !.keys = {"block_id"}])
    [] a = "update_block" ->
         Require1(params.block_id, "block_id", a, "blocks.update",
           [SpreadArgs(params) EXCEPT
              !.keys = PresentKeys(params) \cup {"block_id"}])
    [] a = "delete_block" ->
         Require1(params.block_id, "block_id", a, "blocks.delete",
           [NoSent EXCEPT !.block_id = params.block_id, !.keys = {"block_id"}])
    [] a = "get_user" ->
         Require1(params.user_id, "user_id", a, "users.retrieve",
           [NoSent EXCEPT !.user_id = params.user_id, !.keys = {"user_id"}])
    [] a = "list_users" ->
         Calls("users.list",
           [NoSent EXCEPT !.page_size = params.limit,
                          !.keys = {"start_cursor", "page_size"}])
    [] a = "get_self" -> Calls("users.me", NoSent)
    [] a = "get_comments" ->
         Require1(params.block_id, "block_id", a, "comments.list",
           [NoSent EXCEPT !.block_id = params.block_id,
                          !.page_size = params.limit,
                          !.keys = {"block_id", "start_cursor", "page_size"}])
    [] a = "create_comment" ->
         Require1(params.content, "content", a, "comments.create",
           [NoSent EXCEPT !.parent = params.parent,
                          !.content = params.content,
                          !.keys = {"parent", "rich_text"}])
    [] a = "search" ->
         Calls("search",
           [NoSent EXCEPT !.page_size = params.limit,
                          !.keys = {"query", "filter", "sort",
                                    "start_cursor", "page_size"}])
    [] OTHER -> UnknownAction(a)

\* z.object(UseNotionParams).parse(args): the ZodError message, or <<>>
ZodParse(hasArgs, args) ==
  IF ~hasArgs THEN <<"invalid_type", "Required">>
  ELSE IF args.action = UNDEF THEN <<"invalid_type", "action", "Required">>
  ELSE IF args.action \notin NotionAction
       THEN <<"invalid_enum_value", "action", args.action>>
  ELSE <<>>

\* the use_notion tool callback up to its first await
UseNotionTool(userId, hasArgs, args) ==
  LET z == ZodParse(hasArgs, args) IN
  IF z # <<>> THEN Threw(z) ELSE executeNotionAction(userId, args)


\* ------------------------------------------------- index.ts server variant
\* tools[0].inputSchema.properties.action.enum
tools_index ==
  {"query_database", "create_database", "update_database", "get_database",
   "create_page", "get_page", "update_page", "get_page_property",
   "get_block_children", "append_block_children", "get_block",
   "update_block", "delete_block", "get_user", "list_users", "get_self",
   "get_comments", "create_comment", "search"}

\* (args.limit as number) || dflt
LimitOr(l, dflt) == IF l.def /\ l.val # 0 THEN l ELSE LimitOf(dflt)

\* a || b on strings
OrElse(a, b) == IF Truthy(a) THEN a ELSE b

TypeErrorNoArgs == "Cannot read properties of undefined (reading 'action')"

\* the switch of handleToolCall in index.ts, no parameter is validated
switch_index(args) ==
  LET a == args.action IN
  CASE a = "query_database" ->
         Calls("databases.query",
           [NoSent EXCEPT !.database_id = args.database_id,
                          !.page_size = LimitOr(args.limit, 10),
                          !.keys = {"database_id", "page_size"}])
    [] a = "create_page" ->
         Calls("pages.create",
           [NoSent EXCEPT
              !.parent = ParentOf("database_id", args.database_id),
              !.properties = PropsOf(Spread(
                  PutKey(<<>>, "title", TitleProp(args.title)),
                  IF args.properties.def THEN args.properties.val ELSE <<>>)),
              !.keys = {"parent", "properties"}])
    [] a = "update_page" ->
         Calls("pages.update",
           [NoSent EXCEPT !.page_id = args.page_id,
                          !.properties = args.properties,
                          !.keys = {"page_id", "properties"}])
    [] a = "get_database" ->
         Calls("databases.retrieve",
           [NoSent EXCEPT !.database_id = args.database_id,
                          !.keys = {"database_id"}])
    [] a = "create_database" ->
         Calls("databases.create",
           [NoSent EXCEPT !.parent = args.parent,
                          !.title = TitleOf(<<args.title>>),
                          !.properties = args.properties,
                          !.keys = {"parent", "title", "properties"}])
    [] a = "update_database" ->
         Calls("databases.update",
           [NoSent EXCEPT
              !.database_id = args.database_id,
              !.title = TitleSent(args.title, NoTitle),
              !.properties = args.properties,
              !.keys = {"database_id"}
                 \cup (IF Truthy(args.title) THEN {"title"} ELSE {})
                 \cup (IF args.properties.def THEN {"properties"} ELSE {})])
    [] a = "get_page" ->
         Calls("pages.retrieve",
           [NoSent EXCEPT !.page_id = args.page_id, !.keys = {"page_id"}])
    [] a = "get_page_property" ->
         Calls("pages.properties.retrieve",
           [NoSent EXCEPT !.page_id = args.page_id,
                          !.property_id = args.property_id,
                          !.keys = {"page_id", "property_id"}])
    [] a = "get_block_children" ->
         Calls("blocks.children.list",
           [NoSent EXCEPT !.block_id = args.block_id,
                          !.page_size = LimitOr(args.limit, 100),
                          !.keys = {"block_id", "page_size"}])
    [] a = "append_block_children" ->
         Calls("blocks.children.append",
           [NoSent EXCEPT
              !.block_id = OrElse(args.block_id, args.page_id),
              !.children = IF Truthy(args.content) /\ ~args.children.def
                           THEN ChildrenOf(<<ParagraphBlock(args.content)>>)
                           ELSE args.children,
              !.keys = {"block_id", "children"}])
    [] a = "get_block" ->
         Calls("blocks.retrieve",
           [NoSent EXCEPT !.block_id = args.block_id, !.keys = {"block_id"}])
    [] a = "update_block" ->
         Calls("blocks.update",
           [SpreadArgs(args) EXCEPT
              !.action = UNDEF,
              !.keys = (PresentKeys(args) \ {"action"}) \cup {"block_id"}])
    [] a = "delete_block" ->
         Calls("blocks.delete",
           [NoSent EXCEPT !.block_id = args.block_id, !.keys = {"block_id"}])
    [] a = "get_user" ->
         Calls("users.retrieve",
           [NoSent EXCEPT !.user_id = args.user_id, !.keys = {"user_id"}])
    [] a = "list_users" ->
         Calls("users.list",
           [NoSent EXCEPT !.page_size = LimitOr(args.limit, 100),
                          !.keys = {"page_size"}])
    [] a = "get_self" -> Calls("users.me", NoSent)
    [] a = "get_comments" ->
         Calls("comments.list",
           [NoSent EXCEPT !.block_id = args.block_id, !.keys = {"block_id"}])
    [] a = "create_comment" ->
         Calls("comments.create",
           [NoSent EXCEPT !.parent = args.parent, !.content = args.content,
                          !.keys = {"parent", "rich_text"}])
    [] a = "search" ->
         Calls("search",
           [NoSent EXCEPT !.page_size = LimitOr(args.limit, 10),
                          !.keys = {"query", "page_size"}])
    [] OTHER -> UnknownAction(a)

\* catch (error) { throw new Error(`${prefix}${error.message}`) }
Rethrow(prefix, o) ==
  IF o.threw THEN Threw(<<prefix>> \o o.msg) ELSE o

\* handleToolCall of index.ts up to its first await
handleToolCall_index(name, hasArgs, args) ==
  Rethrow("Tool error: ",
    IF name # "use_notion" THEN Threw(<<"Unknown tool: ", name>>)
    ELSE IF ~hasArgs THEN Threw(<<TypeErrorNoArgs>>)
    ELSE switch_index(args))

\* ------------------------------------------ index-simple.ts server variant
tools_simple ==
  {"query_database", "create_database", "update_database", "get_database",
   "create_page", "get_page", "update_page", "get_page_property",
   "get_block_children", "append_block_children", "get_block",
   "update_block", "delete_block", "get_user", "list_users", "get_self",
   "get_comments", "create_comment", "search"}

switch_simple(args) ==
  LET a == args.action IN
  CASE a = "query_database" ->
         Calls("databases.query",
           [NoSent EXCEPT !.database_id = args.database_id,
                          !.page_size = args.limit,
                          !.keys = {"database_id", "filter", "sorts",
                                    "start_cursor", "page_size"}])
    [] a = "get_database" ->
         Calls("databases.retrieve",
           [NoSent EXCEPT !.database_id = args.database_id,
                          !.keys = {"database_id"}])
    [] a = "create_database" ->
         Calls("databases.create",
           [NoSent EXCEPT !.parent = args.parent,
                          !.title = TitleSent(args.title, TitleOf(<<>>)),
                          !.properties = args.properties,
                          !.keys = {"parent", "title", "properties"}])
    [] a = "update_database" ->
         Calls("databases.update",
           [NoSent EXCEPT !.database_id = args.database_id,
                          !.title = TitleSent(args.title, NoTitle),
                          !.properties = args.properties,
                          !.keys = {"database_id", "title", "properties"}])
    [] a = "create_page" ->
         LET p0 == IF args.properties.def THEN args.properties.val ELSE <<>>
             pageProps == IF Truthy(args.title)
                          THEN PutKey(p0, "title", TitleProp(args.title))
                          ELSE p0
         IN Calls("pages.create",
              [NoSent EXCEPT
                 !.parent = IF args.parent.def THEN args.parent
                            ELSE ParentOf("database_id", args.database_id),
                 !.properties = PropsOf(pageProps),
                 !.keys = {"parent", "properties"}])
    [] a = "get_page" ->
         Calls("pages.retrieve",
           [NoSent EXCEPT !.page_id = args.page_id, !.keys = {"page_id"}])
    [] a = "update_page" ->
         Calls("pages.update",
           [NoSent EXCEPT !.page_id = args.page_id,
                          !.properties = args.properties,
                          !.keys = {"page_id", "properties"}])
    [] a = "get_page_property" ->
         Calls("pages.properties.retrieve",
           [NoSent EXCEPT !.page_id = args.page_id,
                          !.property_id = args.property_id,
                          !.keys = {"page_id", "property_id"}])
    [] a = "get_block_children" ->
         Calls("blocks.children.list",
           [NoSent EXCEPT !.block_id = args.block_id,
                          !.page_size = args.limit,
                          !.keys = {"block_id", "start_cursor", "page_size"}])
    [] a = "append_block_children" ->
         LET c0 == IF args.children.def THEN args.children.val ELSE <<>>
         IN Calls("blocks.children.append",
              [NoSent EXCEPT
                 !.block_id = OrElse(args.block_id, args.page_id),
                 !.children = ChildrenOf(
                     IF Truthy(args.content) /\ Len(c0) = 0
                     THEN <<ParagraphBlock(args.content)>> ELSE c0),
                 !.keys = {"block_id", "children"}])
    [] a = "get_block" ->
         Calls("blocks.retrieve",
           [NoSent EXCEPT !.block_id = args.block_id, !.keys = {"block_id"}])
    [] a = "update_block" ->
         Calls("blocks.update",
           [SpreadArgs(args) EXCEPT
              !.keys = PresentKeys(args) \cup {"block_id"}])
    [] a = "delete_block" ->
         Calls("blocks.delete",
           [NoSent EXCEPT !.block_id = args.block_id, !.keys = {"block_id"}])
    [] a = "get_user" ->
         Calls("users.retrieve",
           [NoSent EXCEPT !.user_id = args.user_id, !.keys = {"user_id"}])
    [] a = "list_users" ->
         Calls("users.list",
           [NoSent EXCEPT !.page_size = args.limit,
                          !.keys = {"start_cursor", "page_size"}])
    [] a = "get_self" -> Calls("users.me", NoSent)
    [] a = "get_comments" ->
         Calls("comments.list",
           [NoSent EXCEPT !.block_id = args.block_id,
                          !.page_size = args.limit,
                          !.keys = {"block_id", "start_cursor", "page_size"}])
    [] a = "create_comment" ->
         Calls("comments.create",
           [NoSent EXCEPT !.parent = args.parent, !.content = args.content,
                          !.keys = {"parent", "rich_text"}])
    [] a = "search" ->
         Calls("search",
           [NoSent EXCEPT !.page_size = args.limit,
                          !.keys = {"query", "filter", "sort",
                                    "start_cursor", "page_size"}])
    [] OTHER -> UnknownAction(a)

\* handleToolCall of index-simple.ts up to its first await; the tool name is
\* not looked at, and args.action is read before the try block
handleToolCall_simple(hasArgs, args) ==
  IF ~hasArgs THEN Threw(<<TypeErrorNoArgs>>)
  ELSE Rethrow("Notion API error: ", switch_simple(args))


\* ------------------------------------------- OpenAPI-proxy server variant
tools_proxy ==
  {"query_database", "create_database", "update_database", "get_database",
   "create_page", "get_page", "update_page", "get_page_property",
   "get_block_children", "append_block_children", "get_block",
   "update_block", "delete_block", "get_user", "list_users", "get_self",
   "get_comments", "create_comment", "search"}

\* the own keys of the object literal ACTION_TO_TOOL_MAP
ACTION_TO_TOOL_MAP ==
  [query_database |-> [tool |-> "query-database", method |-> "POST"],
   create_database |-> [tool |-> "create-database", method |-> "POST"],
   update_database |-> [tool |-> "update-database", method |-> "PATCH"],
   get_database |-> [tool |-> "get-database", method |-> "GET"],
   create_page |-> [tool |-> "create-page", method |-> "POST"],
   get_page |-> [tool |-> "get-page", method |-> "GET"],
   update_page |-> [tool |-> "update-page-properties", method |-> "PATCH"],
   get_page_property |-> [tool |-> "get-page-property", method |-> "GET"],
   get_block_children |-> [tool |-> "get-block-children", method |-> "GET"],
   append_block_children |->
     [tool |-> "append-block-children", method |-> "PATCH"],
   get_block |-> [tool |-> "get-block", method |-> "GET"],
   update_block |-> [tool |-> "update-block", method |-> "PATCH"],
   delete_block |-> [tool |-> "delete-block", method |-> "DELETE"],
   get_user |-> [tool |-> "get-user", method |-> "GET"],
   list_users |-> [tool |-> "list-users", method |-> "GET"],
   get_self |-> [tool |-> "get-bot-user", method |-> "GET"],
   get_comments |-> [tool |-> "get-comments", method |-> "GET"],
   create_comment |-> [tool |-> "create-comment", method |-> "POST"],
   search |-> [tool |-> "search", method |-> "POST"]]

\* property names every object literal inherits from Object.prototype
ObjectPrototypeKeys ==
  {"constructor", "toString", "valueOf", "hasOwnProperty", "__proto__"}

\* ACTION_TO_TOOL_MAP[action]: an own entry, an inherited member of
\* Object.prototype (truthy, its .tool and .method are undefined), or undefined
MapLookup(action) ==
  IF action \in DOMAIN ACTION_TO_TOOL_MAP
  THEN [truthy |-> TRUE, tool |-> ACTION_TO_TOOL_MAP[action].tool,
        method |-> ACTION_TO_TOOL_MAP[action].method]
  ELSE IF action \in ObjectPrototypeKeys
  THEN [truthy |-> TRUE, tool |-> "undefined", method |-> "undefined"]
  ELSE [truthy |-> FALSE, tool |-> "undefined", method |-> "undefined"]

transformArgs(action, args) ==
  LET base ==
        [NoSent EXCEPT
           !.database_id = IF Truthy(args.database_id) THEN args.database_id
                           ELSE UNDEF,
           !.page_id = IF Truthy(args.page_id) THEN args.page_id ELSE UNDEF,
           !.block_id = IF Truthy(args.block_id) THEN args.block_id ELSE UNDEF,
           !.user_id = IF Truthy(args.user_id) THEN args.user_id ELSE UNDEF,
           !.property_id = IF Truthy(args.property_id) THEN args.property_id
                           ELSE UNDEF,
           !.page_size = args.limit,
           !.parent = args.parent,
           !.properties = args.properties,
           !.children = args.children,
           !.keys = {k \in {"database_id", "page_id", "block_id", "user_id",
                            "property_id"} : Truthy(args[k])}
                    \cup (IF args.limit.def THEN {"page_size"} ELSE {})
                    \cup {k \in {"parent", "properties", "children"} :
                            args[k].def}]
  IN IF action = "create_page" /\ Truthy(args.title)
     THEN [base EXCEPT
             !.properties = PropsOf(PutKey(
                 IF args.properties.def THEN args.properties.val ELSE <<>>,
                 "title", TitleProp(args.title))),
             !.keys = base.keys \cup {"properties"}]
     ELSE base

\* handleToolCall of the proxy variant: the checks before the proxy is
\* initialised, and the proxy.callTool(toolName, notionArgs) that follows it
handleToolCall_proxy(name, hasArgs, args) ==
  Rethrow("Tool error: ",
    IF name # "use_notion" THEN Threw(<<"Unknown tool: ", name>>)
    ELSE IF ~hasArgs THEN Threw(<<TypeErrorNoArgs>>)
    ELSE LET mapping == MapLookup(args.action) IN
         IF ~mapping.truthy THEN UnknownAction(args.action)
         ELSE Calls(mapping.tool \o "-" \o mapping.method,
                    transformArgs(args.action, args)))

\* ------------------------------------------------ Gmail wrapper (config.ts)
\* Message text is a sequence of character codes: the ASCII subset, which
\* Buffer.from(message) turns into one byte each.  The encoded form is a
\* string over the base64url alphabet.
\* "To: ", "Cc: ", "Bcc: ", "Subject: " and the two fixed header lines
HeaderTo == <<84, 111, 58, 32>>
HeaderCc == <<67, 99, 58, 32>>
HeaderBcc == <<66, 99, 99, 58, 32>>
HeaderSubject == <<83, 117, 98, 106, 101, 99, 116, 58, 32>>
HeaderContentType ==
  <<67, 111, 110, 116, 101, 110, 116, 45, 84, 121, 112, 101, 58, 32, 116,
    101, 120, 116, 47, 112, 108, 97, 105, 110, 59, 32, 99, 104, 97, 114, 115,
    101, 116, 61, 117, 116, 102, 45, 56>>
HeaderMimeVersion ==
  <<77, 73, 77, 69, 45, 86, 101, 114, 115, 105, 111, 110, 58, 32, 49, 46, 48>>
CommaSpace == <<44, 32>>
CRLF == <<13, 10>>

\* optional text and optional lists of text
NoText == [def |-> FALSE, val |-> <<>>]
TextOf(t) == [def |-> TRUE, val |-> t]
NoList == [def |-> FALSE, val |-> <<>>]
ListOf(l) == [def |-> TRUE, val |-> l]

\* parts.join(sep)
RECURSIVE Join(_, _)
Join(parts, sep) ==
  IF parts = <<>> THEN <<>>
  ELSE IF Len(parts) = 1 THEN parts[1]
  ELSE parts[1] \o sep \o Join(Tail(parts), sep)

\* faulty createEmailMessage: the Bcc line is pushed before the Cc line
createEmailMessage_bccFirst(params) ==
  Join((IF params.to.def /\ Len(params.to.val) > 0
        THEN <<HeaderTo \o Join(params.to.val, CommaSpace)>> ELSE <<>>)
       \o (IF params.bcc.def /\ Len(params.bcc.val) > 0
           THEN <<HeaderBcc \o Join(params.bcc.val, CommaSpace)>> ELSE <<>>)
       \o (IF params.cc.def /\ Len(params.cc.val) > 0
           THEN <<HeaderCc \o Join(params.cc.val, CommaSpace)>> ELSE <<>>)
       \o (IF params.subject.def /\ Len(params.subject.val) > 0
           THEN <<HeaderSubject \o params.subject.val>> ELSE <<>>)
       \o <<HeaderContentType, HeaderMimeVersion, <<>>,
            IF params.body.def THEN params.body.val ELSE <<>> >>,
       CRLF)

\* createEmailMessage: the header lines that have a value, the two fixed
\* headers, an empty line and the body, joined by CRLF
createEmailMessage(params) ==
  Join((IF params.to.def /\ Len(params.to.val) > 0
        THEN <<HeaderTo \o Join(params.to.val, CommaSpace)>> ELSE <<>>)
       \o (IF params.cc.def /\ Len(params.cc.val) > 0
           THEN <<HeaderCc \o Join(params.cc.val, CommaSpace)>> ELSE <<>>)
       \o (IF params.bcc.def /\ Len(params.bcc.val) > 0
           THEN <<HeaderBcc \o Join(params.bcc.val, CommaSpace)>> ELSE <<>>)
       \o (IF params.subject.def /\ Len(params.subject.val) > 0
           THEN <<HeaderSubject \o params.subject.val>> ELSE <<>>)
       \o <<HeaderContentType, HeaderMimeVersion, <<>>,
            IF params.body.def THEN params.body.val ELSE <<>> >>,
       CRLF)

\* the base64 alphabet, by sextet value + 1
Base64Alphabet ==
  <<"A", "B", "C", "D", "E", "F", "G", "H", "I", "J", "K", "L", "M", "N", "O",
    "P", "Q", "R", "S", "T", "U", "V", "W", "X", "Y", "Z", "a", "b", "c", "d",
    "e", "f", "g", "h", "i", "j", "k", "l", "m", "n", "o", "p", "q", "r", "s",
    "t", "u", "v", "w", "x", "y", "z", "0", "1", "2", "3", "4", "5", "6", "7",
    "8", "9", "+", "/">>

\* Buffer.from(message).toString('base64'): three bytes make four
\* characters, a last group of one or two bytes is padded with "="
RECURSIVE Base64(_)
Base64(bytes) ==
  IF bytes = <<>> THEN <<>>
  ELSE IF Len(bytes) = 1
  THEN <<Base64Alphabet[(bytes[1] \div 4) + 1],
         Base64Alphabet[((bytes[1] % 4) * 16) + 1], "=", "=">>
  ELSE IF Len(bytes) > 3
  THEN LET h == 3 * ((Len(bytes) + 3) \div 6)
       IN Base64(SubSeq(bytes, 1, h)) \o Base64(SubSeq(bytes, h + 1, Len(bytes)))
  ELSE IF Len(bytes) = 2
  THEN <<Base64Alphabet[(bytes[1] \div 4) + 1],
         Base64Alphabet[((bytes[1] % 4) * 16) + (bytes[2] \div 16) + 1],
         Base64Alphabet[((bytes[2] % 16) * 4) + 1], "=">>
  ELSE <<Base64Alphabet[(bytes[1] \div 4) + 1],
         Base64Alphabet[((bytes[1] % 4) * 16) + (bytes[2] \div 16) + 1],
         Base64Alphabet[((bytes[2] % 16) * 4) + (bytes[3] \div 64) + 1],
         Base64Alphabet[(bytes[3] % 64) + 1]>>

\* .replace(/=+$/, '')
RECURSIVE StripPadding(_)
StripPadding(chars) ==
  IF chars # <<>> /\ chars[Len(chars)] = "="
  THEN StripPadding(SubSeq(chars, 1, Len(chars) - 1))
  ELSE chars

\* the characters of a sequence as one string
RECURSIVE Concat(_)
Concat(chars) ==
  IF chars = <<>> THEN ""
  ELSE IF Len(chars) = 1 THEN chars[1]
  ELSE LET h == Len(chars) \div 2
       IN Concat(SubSeq(chars, 1, h)) \o Concat(SubSeq(chars, h + 1, Len(chars)))

\* faulty encodeMessage: plain base64, nothing replaced or stripped
encodeMessage_plain(message) == Concat(Base64(message))

\* encodeMessage: base64 with "+" -> "-", "/" -> "_" and the padding removed
encodeMessage(message) ==
  LET b == Base64(message) IN
  Concat(StripPadding(
    [i \in DOMAIN b |->
       IF b[i] = "+" THEN "-" ELSE IF b[i] = "/" THEN "_" ELSE b[i]]))

\* the arguments of use_gmail and use_google_calendar that decide a call;
\* list filters, label changes and event details are passed through
GoogleNoArgs ==
  [action |-> UNDEF, id |-> UNDEF, messageId |-> UNDEF, threadId |-> UNDEF,
   draftId |-> UNDEF, labelId |-> UNDEF, attachmentId |-> UNDEF,
   name |-> UNDEF, ids |-> NoList, raw |-> UNDEF, to |-> NoList,
   cc |-> NoList, bcc |-> NoList, subject |-> NoText, body |-> NoText,
   calendarId |-> UNDEF]

\* what a request to the Google client carries
GoogleNoSent ==
  [id |-> UNDEF, messageId |-> UNDEF, raw |-> UNDEF, threadId |-> UNDEF,
   name |-> UNDEF, ids |-> NoList, calendarId |-> UNDEF]

GmailAction ==
  {"list_messages", "get_message", "send_message", "modify_message",
   "trash_message", "delete_message", "list_threads", "get_thread",
   "modify_thread", "trash_thread", "untrash_thread", "delete_thread",
   "list_drafts", "get_draft", "create_draft", "send_draft", "delete_draft",
   "list_labels", "get_label", "create_label", "update_label",
   "delete_label", "get_profile", "get_attachment", "batch_modify_messages",
   "batch_delete_messages"}

\* requireParam of the Gmail wrapper: the thrown message, or <<>>; only
\* undefined and null are refused
requireParamGmail(value, paramName, action) ==
  IF value = UNDEF
  THEN <<"Missing required parameter '", paramName, "' for action '", action,
         "'">>
  ELSE <<>>

\* { id: params.id || requireParam(alt, paramName, action) } and the call
IdOr(action, op, id, alt, paramName, sent) ==
  IF Truthy(id) THEN Calls(op, [sent EXCEPT !.id = id])
  ELSE IF requireParamGmail(alt, paramName, action) # <<>>
  THEN Threw(requireParamGmail(alt, paramName, action))
  ELSE Calls(op, [sent EXCEPT !.id = alt])

\* the same with the test `raw === undefined` in place of `!raw`
RawMessage_definedOnly(params) ==
  IF params.raw # UNDEF THEN params.raw
  ELSE encodeMessage(createEmailMessage(params))

\* let raw = params.raw; if (!raw) raw = encodeMessage(createEmailMessage(..))
RawMessage(params) ==
  IF Truthy(params.raw) THEN params.raw
  ELSE encodeMessage(createEmailMessage(params))

\* executeGmailAction up to its first await: the request handed to the
\* Gmail client, or the error thrown before it
executeGmailAction(params) ==
  LET a == params.action IN
  CASE a = "list_messages" -> Calls("users.messages.list", GoogleNoSent)
    [] a = "list_threads" -> Calls("users.threads.list", GoogleNoSent)
    [] a = "list_drafts" -> Calls("users.drafts.list", GoogleNoSent)
    [] a = "list_labels" -> Calls("users.labels.list", GoogleNoSent)
    [] a = "get_profile" -> Calls("users.getProfile", GoogleNoSent)
    [] a = "get_message" ->
         IdOr(a, "users.messages.get", params.id, params.messageId, "id or messageId", GoogleNoSent)
    [] a = "modify_message" ->
         IdOr(a, "users.messages.modify", params.id, params.messageId, "id or messageId", GoogleNoSent)
    [] a = "trash_message" ->
         IdOr(a, "users.messages.trash", params.id, params.messageId, "id or messageId", GoogleNoSent)
    [] a = "delete_message" ->
         IdOr(a, "users.messages.delete", params.id, params.messageId, "id or messageId", GoogleNoSent)
    [] a = "get_thread" ->
         IdOr(a, "users.threads.get", params.id, params.threadId, "id or threadId", GoogleNoSent)
    [] a = "modify_thread" ->
         IdOr(a, "users.threads.modify", params.id, params.threadId, "id or threadId", GoogleNoSent)
    [] a = "trash_thread" ->
         IdOr(a, "users.threads.trash", params.id, params.threadId, "id or threadId", GoogleNoSent)
    [] a = "untrash_thread" ->
         IdOr(a, "users.threads.untrash", params.id, params.threadId, "id or threadId", GoogleNoSent)
    [] a = "delete_thread" ->
         IdOr(a, "users.threads.delete", params.id, params.threadId, "id or threadId", GoogleNoSent)
    [] a = "get_draft" ->
         IdOr(a, "users.drafts.get", params.id, params.draftId, "id or draftId", GoogleNoSent)
    [] a = "send_draft" ->
         IdOr(a, "users.drafts.send", params.id, params.draftId, "id or draftId", GoogleNoSent)
    [] a = "delete_draft" ->
         IdOr(a, "users.drafts.delete", params.id, params.draftId, "id or draftId", GoogleNoSent)
    [] a = "get_label" ->
         IdOr(a, "users.labels.get", params.id, params.labelId, "id or labelId", GoogleNoSent)
    [] a = "delete_label" ->
         IdOr(a, "users.labels.delete", params.id, params.labelId, "id or labelId", GoogleNoSent)
    [] a = "update_label" ->
         IdOr(a, "users.labels.update", params.id, params.labelId,
              "id or labelId", [GoogleNoSent EXCEPT !.name = params.name])
    [] a = "send_message" ->
         Calls("users.messages.send",
               [GoogleNoSent EXCEPT !.raw = RawMessage(params),
                                    !.threadId = params.threadId])
    [] a = "create_draft" ->
         Calls("users.drafts.create",
               [GoogleNoSent EXCEPT !.raw = RawMessage(params),
                                    !.threadId = params.threadId])
    [] a = "create_label" ->
         IF requireParamGmail(params.name, "name", a) # <<>>
         THEN Threw(requireParamGmail(params.name, "name", a))
         ELSE Calls("users.labels.create",
                    [GoogleNoSent EXCEPT !.name = params.name])
    [] a = "get_attachment" ->
         IF requireParamGmail(params.messageId, "messageId", a) # <<>>
         THEN Threw(requireParamGmail(params.messageId, "messageId", a))
         ELSE IdOr(a, "users.messages.attachments.get", params.id,
                   params.attachmentId, "id or attachmentId",
                   [GoogleNoSent EXCEPT !.messageId = params.messageId])
    [] a = "batch_modify_messages" ->
         IF ~params.ids.def
         THEN Threw(requireParamGmail(UNDEF, "ids", a))
         ELSE Calls("users.messages.batchModify",
                    [GoogleNoSent EXCEPT !.ids = params.ids])
    [] a = "batch_delete_messages" ->
         IF ~params.ids.def
         THEN Threw(requireParamGmail(UNDEF, "ids", a))
         ELSE Calls("users.messages.batchDelete",
                    [GoogleNoSent EXCEPT !.ids = params.ids])
    [] OTHER -> Threw(<<"Unknown Gmail action: ", a>>)

\* ------------------------------------------- Google server (part_004)
GoogleCalendarAction ==
  {"get-current-time", "list-calendars", "list-events", "search-events",
   "get-event", "create-event", "update-event", "delete-event",
   "get-freebusy", "list-colors"}

\* the handler class executeCalendarAction instantiates for an action
CalendarHandler(a) ==
  CASE a = "get-current-time" -> "GetCurrentTimeHandler"
    [] a = "list-calendars" -> "ListCalendarsHandler"
    [] a = "list-events" -> "ListEventsHandler"
    [] a = "search-events" -> "SearchEventsHandler"
    [] a = "get-event" -> "GetEventHandler"
    [] a = "create-event" -> "CreateEventHandler"
    [] a = "update-event" -> "UpdateEventHandler"
    [] a = "delete-event" -> "DeleteEventHandler"
    [] a = "get-freebusy" -> "FreeBusyEventHandler"
    [] a = "list-colors" -> "ListColorsHandler"

\* executeCalendarAction: params go to the handler's runTool as they are
executeCalendarAction(params) ==
  IF params.action \in GoogleCalendarAction
  THEN Calls(CalendarHandler(params.action) \o ".runTool",
             [GoogleNoSent EXCEPT !.calendarId = params.calendarId])
  ELSE Threw(<<"Unknown action: ", params.action>>)

\* the two tool callbacks up to their first await: zod parse, then dispatch
UseGoogleTool(name, hasArgs, args) ==
  LET enum == IF name = "use_gmail" THEN GmailAction
              ELSE GoogleCalendarAction
  IN IF ~hasArgs THEN Threw(<<"invalid_type", "Required">>)
     ELSE IF args.action = UNDEF
     THEN Threw(<<"invalid_type", "action", "Required">>)
     ELSE IF args.action \notin enum
     THEN Threw(<<"invalid_enum_value", "action", args.action>>)
     ELSE IF name = "use_gmail" THEN executeGmailAction(args)
     ELSE executeCalendarAction(args)

\* --------------------------- calendar skill (skills/google-calendar/SKILL.md)
\* process.env["CALENDAR_" + ALIAS], undefined when the variable is not set
CalendarVar(calendars, alias) ==
  IF alias \in DOMAIN calendars THEN calendars[alias] ELSE UNDEF

\* the fixed fallback of the resolution chain
PrimaryCalendar == "primary"

\* faulty resolution: the alias binding is consulted before the explicit id
ResolveCalendarId_aliasFirst(explicit, alias, calendars) ==
  IF Truthy(CalendarVar(calendars, alias)) THEN CalendarVar(calendars, alias)
  ELSE IF Truthy(explicit) THEN explicit
  ELSE IF Truthy(calendars.personal) THEN calendars.personal
  ELSE PrimaryCalendar

\* the calendarId the calendar agent puts into a request: the id the user
\* gave, else CALENDAR_{ALIAS}, else CALENDAR_PERSONAL, else "primary"
ResolveCalendarId(explicit, alias, calendars) ==
  IF Truthy(explicit) THEN explicit
  ELSE IF Truthy(CalendarVar(calendars, alias))
  THEN CalendarVar(calendars, alias)
  ELSE IF Truthy(calendars.personal) THEN calendars.personal
  ELSE PrimaryCalendar


\* ------------------------------------------------------------- the servers
Variants == {"index", "simple", "proxy", "sdk"}
LineReaders == {"index", "simple", "proxy"}

\* the variants whose readline "close" handler calls process.exit(0)
ExitsOnClose == {"index", "proxy"}

\* one line of the input stream: text that JSON.parse rejects ("garbage"),
\* the JSON text null ("null"), or a JSON-RPC request object
Line(kind, id, method, name, hasArgs, args) ==
  [kind |-> kind, id |-> id, method |-> method, name |-> name,
   hasArgs |-> hasArgs, args |-> args]

Garbage == Line("garbage", 0, "", "", FALSE, NoArgs)
JsonNull == Line("null", 0, "", "", FALSE, NoArgs)
Request(id, method) == Line("request", id, method, "", FALSE, NoArgs)
ToolCall(id, name, args) == Line("request", id, "tools/call", name, TRUE, args)
ToolCallNoArgs(id, name) ==
  Line("request", id, "tools/call", name, FALSE, NoArgs)

\* the tool call of a line up to its first await, per variant
SyncOutcome(v, userId, l) ==
  CASE v = "index" -> handleToolCall_index(l.name, l.hasArgs, l.args)
    [] v = "simple" -> handleToolCall_simple(l.hasArgs, l.args)
    [] v = "proxy" -> handleToolCall_proxy(l.name, l.hasArgs, l.args)
    [] v = "sdk" -> UseNotionTool(userId, l.hasArgs, l.args)
    [] v = "google" -> UseGoogleTool(l.name, l.hasArgs, l.args)

\* a failure of the remote service: its code and its human-readable message
RemoteErrors ==
  {[code |-> "object_not_found", message |-> "Could not find object"]}

\* the tool call once its remote call has rejected with e: the catch blocks
\* of handleToolCall keep e.message only
RejectedOutcome(v, e) ==
  CASE v = "index" -> Threw(<<"Tool error: ", e.message>>)
    [] v = "simple" -> Threw(<<"Notion API error: ", e.message>>)
    [] v = "proxy" -> Threw(<<"Tool error: ", e.message>>)
    [] v = "sdk" -> Threw(<<e.message>>)
    [] v = "google" -> Threw(<<e.message>>)

\* ------------------------------------------------------------------ startup
\* value.trim() on the environment values the model draws: undefined, "",
\* one blank, or text without surrounding blanks
Trim(s) == IF s = " " THEN "" ELSE s

\* faulty test: any non-empty string counts, blanks included
NonBlank_untrimmed(s) == s # UNDEF /\ s # ""

\* typeof value === 'string' && value.trim().length > 0
NonBlank(s) == s # UNDEF /\ Trim(s) # ""

REQUIRED_TOKENS == <<"NOTION_TOKEN", "NOTION_API_KEY">>

\* loadEnvConfig: throws MissingEnvError when no token variable is usable
loadEnvConfig(e) ==
  LET found == {i \in DOMAIN REQUIRED_TOKENS : NonBlank(e[REQUIRED_TOKENS[i]])}
  IN IF found = {}
     THEN [threw |-> TRUE, authToken |-> UNDEF, tokenSource |-> UNDEF,
           userId |-> UNDEF]
     ELSE LET i == CHOOSE i \in found : \A j \in found : i <= j
              tokenEntry == REQUIRED_TOKENS[i]
              userId == Trim(e.NOTION_USER_ID)
          IN [threw |-> FALSE, authToken |-> Trim(e[tokenEntry]),
              tokenSource |-> tokenEntry,
              userId |-> IF Truthy(userId) THEN userId ELSE UNDEF]

\* faulty initializeAuth: the result of validateTokens() is not looked at
initializeAuth_unchecked(savedTokens) ==
  IF savedTokens = "throws" THEN [exit |-> TRUE, code |-> 1]
  ELSE [exit |-> FALSE, code |-> 0]

\* initializeAuth of the Google server: validateTokens() returns true
\* ("valid"), returns false ("invalid"), or client set-up throws ("throws")
initializeAuth(savedTokens) ==
  IF savedTokens = "valid" THEN [exit |-> FALSE, code |-> 0]
  ELSE [exit |-> TRUE, code |-> 1]

\* what module initialisation and the start of main() decide, per server:
\* the SDK server guards on loadEnvConfig, the Google server on
\* initializeAuth, the readline servers build their client unconditionally
StartupOutcome(v, e) ==
  CASE v = "sdk" ->
         LET c == loadEnvConfig(e) IN
         IF c.threw THEN [exit |-> TRUE, code |-> 1, userId |-> UNDEF]
         ELSE [exit |-> FALSE, code |-> 0, userId |-> c.userId]
    [] v = "google" ->
         LET a == initializeAuth(e.savedTokens) IN
         [exit |-> a.exit, code |-> a.code, userId |-> UNDEF]
    [] OTHER -> [exit |-> FALSE, code |-> 0, userId |-> UNDEF]

\* ---------------------------------------------------------------- responses
Response(line, id, hasResult, hasError, code, body, enum, isError, text) ==
  [line |-> line, id |-> id, hasResult |-> hasResult, hasError |-> hasError,
   code |-> code, body |-> body, enum |-> enum, isError |-> isError,
   text |-> text]

ServerInfo(v) ==
  CASE v = "index" -> <<"notion-mcp", "1.0.0">>
    [] v = "simple" -> <<"notion-mcp-pattern1", "4.1.0">>
    [] v = "proxy" -> <<"notion-mcp-pattern1", "2.0.0">>
    [] v = "sdk" -> <<"notion-mcp-pattern1", "5.1.0">>
    [] v = "google" -> <<"google-services-pattern1", "1.0.0">>

InitializeResponse(v, n, id) ==
  Response(n, id, TRUE, FALSE, 0, "serverInfo", {}, FALSE, ServerInfo(v))

\* the action enum of the advertised tool schema
tools(v) ==
  CASE v = "index" -> tools_index
    [] v = "simple" -> tools_simple
    [] v = "proxy" -> tools_proxy
    [] v = "sdk" -> NotionAction
    [] v = "google" -> GoogleCalendarAction \cup GmailAction

ToolsListResponse(v, n, id) ==
  Response(n, id, TRUE, FALSE, 0, "tools", tools(v), FALSE,
           IF v = "google" THEN <<"use_google_calendar", "use_gmail">>
           ELSE <<"use_notion">>)

MethodNotFoundCode == -32601

\* faulty fallback: a result field and another code
MethodNotFoundResponse_asResult(v, n, id, method) ==
  Response(n, id, TRUE, TRUE, -32600, "", {}, FALSE, <<"Method not found">>)

MethodNotFoundResponse(v, n, id, method) ==
  Response(n, id, FALSE, TRUE, MethodNotFoundCode, "", {}, FALSE,
           IF v = "simple" THEN <<"Method not found: ", method>>
           ELSE <<"Method not found">>)

\* what handleToolCall of index.ts returns after the remote call op: the
\* response object itself ("response"), a new object holding an id and a
\* boolean flag ("confirmation"), or selected fields ("projection")
ReturnShape_index(op) ==
  CASE op \in {"pages.retrieve", "pages.properties.retrieve",
               "blocks.retrieve", "users.retrieve", "users.me"} -> "response"
    [] op \in {"pages.update", "databases.update", "blocks.children.append",
               "blocks.update", "blocks.delete", "comments.create"}
         -> "confirmation"
    [] OTHER -> "projection"

\* what executeGmailAction returns: { success: true, deleted | modified }
\* for the delete and batch actions, response.data for all others
ReturnShape_gmail(op) ==
  IF op \in {"users.messages.delete", "users.threads.delete",
             "users.drafts.delete", "users.labels.delete",
             "users.messages.batchModify", "users.messages.batchDelete"}
  THEN "confirmation" ELSE "response"

\* the value a tool call returns once its remote call has succeeded; the
\* other servers return the awaited response as it is (transformResult of
\* the proxy variant passes it through)
ReturnShape(v, op) ==
  CASE v = "index" -> ReturnShape_index(op)
    [] v = "google" -> ReturnShape_gmail(op)
    [] OTHER -> "response"

\* result: { content: [...], isError: false } carrying the returned value
ToolResultResponse(v, n, id, op) ==
  Response(n, id, TRUE, FALSE, 0, "content", {}, FALSE,
           <<"result of ", op, ReturnShape(v, op)>>)

\* faulty catch: the error text is returned without the isError flag
ToolErrorResponse_notFlagged(v, n, id, msg) ==
  Response(n, id, TRUE, FALSE, 0, "content", {}, FALSE,
           IF v \in {"sdk", "google"} THEN <<"Error: ">> \o msg ELSE msg)

\* result: { content: [{ type: "text", text }], isError: true }
ToolErrorResponse(v, n, id, msg) ==
  Response(n, id, TRUE, FALSE, 0, "content", {}, TRUE,
           IF v \in {"sdk", "google"} THEN <<"Error: ">> \o msg ELSE msg)


\* ------------------------------------------------------------------- state
VARIABLES
  variant,       \* which server this process runs
  notionUserId,  \* NOTION_USER_ID as loaded at startup (UNDEF when unset)
  input,         \* lines of stdin not yet read
  lines,         \* lines read so far, in order
  stage,         \* per line read: where its handler stands: "logged",
                 \* "done", "micro", "init", "remote", "resolved", "rejected"
  microq,        \* handlers resumed by an already settled promise, FIFO
  out,           \* stdout: the response lines written, in order
  err,           \* stderr: the numbers of the lines that were reported
  calls,         \* calls made on the remote client, in order
  notionProxy,   \* proxy variant: the cached proxy instance, 0 is null
  initCalls,     \* proxy variant: number of initProxy invocations
  closed,        \* end of input has been seen
  proc,          \* "starting", "running", "exited" (process.exit or
                 \* drained), "crashed"
  env,           \* what the process finds at startup: environment variables
                 \* and the state of the saved Google tokens
  exitCode,      \* the code given to process.exit (0 until then)
  intents        \* Google skill: what the agent was asked to do, in order,
                 \* each marked once its request line has been written

vars == <<variant, notionUserId, input, lines, stage, microq, out, err,
          calls, notionProxy, initCalls, closed, proc, env, exitCode,
          intents>>

\* faulty write: the response line is written twice
console_log_twice(o, r) == Append(Append(o, r), r)

\* console.log(JSON.stringify(response))
console_log(o, r) == Append(o, r)

\* faulty catch: a parse-error envelope is written to stdout as well
CatchLine_respond(o, e, n) ==
  [out |-> Append(o, Response(n, 0, FALSE, TRUE, -32700, "", {}, FALSE,
                              <<"Parse error">>)),
   err |-> Append(e, n), proc |-> "running"]

\* the outer catch of the line handler: the failure goes to stderr only
CatchLine(o, e, n) == [out |-> o, err |-> Append(e, n), proc |-> "running"]

\* JSON.parse(line) throws, or request.method is read from null
LineThrows(l) == l.kind \in {"garbage", "null"}

\* faulty routing: every remaining method takes the awaiting branch
Awaits_all(method) == TRUE

\* the one branch of the line handler that awaits: tools/call
Awaits(method) == method = "tools/call"

\* the properties object of the caller's argument bag once create_page has
\* built its request: index-sdk.ts hands the caller's own object to the
\* title fold when no acting user is configured, transformArgs of the proxy
\* variant assigns the title into the object it was given, index.ts and
\* index-simple.ts build a new object
CallerProperties(v, userId, args) ==
  IF args.action # "create_page" \/ ~args.properties.def \/ ~Truthy(args.title)
  THEN args.properties
  ELSE CASE v = "sdk" ->
              IF ~Truthy(userId) /\ "title" \notin DOMAIN args.properties.val
              THEN PropsOf(PutKey(args.properties.val, "title",
                                  TitleProp(args.title)))
              ELSE args.properties
         [] v = "proxy" ->
              PropsOf(PutKey(args.properties.val, "title",
                             TitleProp(args.title)))
         [] OTHER -> args.properties

\* a record of one call on the remote client, with what the handler
\* left of the caller's properties object
Call(n, l, o, proxy) ==
  [line |-> n, op |-> o.op, sent |-> o.sent, proxy |-> proxy,
   bag |-> IF l.hasArgs /\ l.name = "use_notion"
           THEN CallerProperties(variant, notionUserId, l.args)
           ELSE NoProps]

\* module initialisation up to server.connect: either the process logs and
\* exits, or the transport is connected and lines are read from then on
Startup ==
  /\ proc = "starting"
  /\ LET s == StartupOutcome(variant, env) IN
       /\ proc' = IF s.exit THEN "exited" ELSE "running"
       /\ exitCode' = s.code
       /\ notionUserId' = s.userId
       /\ err' = IF s.exit THEN Append(err, 0) ELSE err
  /\ UNCHANGED <<variant, input, lines, stage, microq, out, calls,
                 notionProxy, initCalls, closed, env, intents>>

\* the "line" event: the handler runs up to its first await
ReadLine ==
  /\ proc = "running"
  /\ input # <<>>
  /\ LET l == Head(input)
         n == Len(lines) + 1
         o == SyncOutcome(variant, notionUserId, l)
     IN /\ input' = Tail(input)
        /\ lines' = Append(lines, l)
        /\ IF LineThrows(l)
           THEN LET c == CatchLine(out, err, n) IN
                /\ out' = c.out /\ err' = c.err /\ proc' = c.proc
                /\ stage' = Append(stage, "logged")
                /\ UNCHANGED <<microq, calls, initCalls>>
           ELSE IF l.method = "initialize"
           THEN /\ out' = console_log(out, InitializeResponse(variant, n, l.id))
                /\ stage' = Append(stage, "done")
                /\ UNCHANGED <<err, proc, microq, calls, initCalls>>
           ELSE IF l.method = "tools/list"
           THEN /\ out' = console_log(out, ToolsListResponse(variant, n, l.id))
                /\ stage' = Append(stage, "done")
                /\ UNCHANGED <<err, proc, microq, calls, initCalls>>
           ELSE IF Awaits(l.method)
           THEN /\ UNCHANGED <<out, err, proc>>
                /\ IF o.threw
                   THEN /\ stage' = Append(stage, "micro")
                        /\ microq' = Append(microq, n)
                        /\ UNCHANGED <<calls, initCalls>>
                   ELSE IF variant = "proxy"
                   THEN IF notionProxy = 0
                        THEN /\ stage' = Append(stage, "init")
                             /\ initCalls' = initCalls + 1
                             /\ UNCHANGED <<microq, calls>>
                        ELSE /\ stage' = Append(stage, "micro")
                             /\ microq' = Append(microq, n)
                             /\ UNCHANGED <<calls, initCalls>>
                   ELSE /\ stage' = Append(stage, "remote")
                        /\ calls' = Append(calls, Call(n, l, o, 0))
                        /\ UNCHANGED <<microq, initCalls>>
           ELSE /\ out' = console_log(out,
                            MethodNotFoundResponse(variant, n, l.id, l.method))
                /\ stage' = Append(stage, "done")
                /\ UNCHANGED <<err, proc, microq, calls, initCalls>>
  /\ UNCHANGED <<variant, notionUserId, notionProxy, closed, env, exitCode,
                 intents>>

\* a handler whose awaited promise had already settled resumes: it writes
\* the error result, or (proxy variant, proxy cached) calls the tool
RunMicrotask ==
  /\ proc = "running"
  /\ microq # <<>>
  /\ LET n == Head(microq)
         l == lines[n]
         o == SyncOutcome(variant, notionUserId, l)
     IN /\ microq' = Tail(microq)
        /\ IF o.threw
           THEN /\ out' = console_log(out,
                            ToolErrorResponse(variant, n, l.id, o.msg))
                /\ stage' = [stage EXCEPT ![n] = "rejected"]
                /\ UNCHANGED calls
           ELSE /\ calls' = Append(calls, Call(n, l, o, notionProxy))
                /\ stage' = [stage EXCEPT ![n] = "remote"]
                /\ UNCHANGED out
  /\ UNCHANGED <<variant, notionUserId, input, lines, err, notionProxy,
                 initCalls, closed, proc, env, exitCode,
                 intents>>

InitProxyFailure == "Failed to initialise proxy"

\* initProxy settles for the handler of line n: on success the instance is
\* stored in notionProxy and the tool is called on it
InitProxySettle(n, ok) ==
  /\ proc = "running"
  /\ microq = <<>>
  /\ n \in DOMAIN stage /\ stage[n] = "init"
  /\ LET l == lines[n]
         o == SyncOutcome(variant, notionUserId, l)
     IN IF ok
        THEN /\ notionProxy' = n
             /\ calls' = Append(calls, Call(n, l, o, n))
             /\ stage' = [stage EXCEPT ![n] = "remote"]
             /\ UNCHANGED out
        ELSE /\ out' = console_log(out,
                         ToolErrorResponse(variant, n, l.id,
                           <<"Tool error: ", InitProxyFailure>>))
             /\ stage' = [stage EXCEPT ![n] = "rejected"]
             /\ UNCHANGED <<notionProxy, calls>>
  /\ UNCHANGED <<variant, notionUserId, input, lines, microq, err, initCalls,
                 closed, proc, env, exitCode,
                 intents>>
\* faulty completion: a failed remote call is issued once more
RemoteSettle_retry(n, ok, e) ==
  /\ proc = "running"
  /\ microq = <<>>
  /\ n \in DOMAIN stage /\ stage[n] = "remote"
  /\ LET l == lines[n]
         o == SyncOutcome(variant, notionUserId, l)
         again == ~ok /\ Cardinality({k \in DOMAIN calls :
                                         calls[k].line = n}) < 2
     IN /\ out' = IF again THEN out
                  ELSE console_log(out,
                         IF ok THEN ToolResultResponse(variant, n, l.id, o.op)
                         ELSE ToolErrorResponse(variant, n, l.id,
                                RejectedOutcome(variant, e).msg))
        /\ calls' = IF again THEN Append(calls, Call(n, l, o, notionProxy))
                    ELSE calls
        /\ stage' = IF again THEN stage
                    ELSE [stage EXCEPT ![n] =
                            IF ok THEN "resolved" ELSE "rejected"]
  /\ UNCHANGED <<variant, notionUserId, input, lines, microq, err,
                 notionProxy, initCalls, closed, proc, env, exitCode,
                 intents>>

\* the remote call of line n settles and its handler writes the response
RemoteSettle(n, ok, e) ==
  /\ proc = "running"
  /\ microq = <<>>
  /\ n \in DOMAIN stage /\ stage[n] = "remote"
  /\ LET l == lines[n]
         o == SyncOutcome(variant, notionUserId, l)
     IN out' = console_log(out,
          IF ok THEN ToolResultResponse(variant, n, l.id, o.op)
          ELSE ToolErrorResponse(variant, n, l.id,
                                 RejectedOutcome(variant, e).msg))
  /\ stage' = [stage EXCEPT ![n] = IF ok THEN "resolved" ELSE "rejected"]
  /\ UNCHANGED <<variant, notionUserId, input, lines, microq, err, calls,
                 notionProxy, initCalls, closed, proc, env, exitCode,
                 intents>>

\* end of input: readline emits "close"; index.ts and the proxy variant
\* call process.exit(0) in their close handler
CloseInput ==
  /\ proc = "running"
  /\ input = <<>> /\ ~closed
  /\ microq = <<>>
  /\ closed' = TRUE
  /\ proc' = IF variant \in ExitsOnClose THEN "exited" ELSE "running"
  /\ UNCHANGED <<variant, notionUserId, input, lines, stage, microq, out,
                 err, calls, notionProxy, initCalls, env, exitCode,
                 intents>>

Busy == \E n \in DOMAIN stage : stage[n] \in {"micro", "init", "remote"}

\* without a close handler the process ends once nothing is pending
Drain ==
  /\ proc = "running"
  /\ closed /\ ~Busy
  /\ proc' = "exited"
  /\ UNCHANGED <<variant, notionUserId, input, lines, stage, microq, out,
                 err, calls, notionProxy, initCalls, closed, env, exitCode,
                 intents>>

\* the client of the Google server writes its next request; for a calendar
\* request it first resolves the calendar the user meant
SkillRequest ==
  /\ proc # "exited"
  /\ ~closed
  /\ \E i \in DOMAIN intents :
       /\ ~intents[i].asked
       /\ \A j \in 1..(i - 1) : intents[j].asked
       /\ LET it == intents[i]
              l == IF it.resolve
                   THEN [it.line EXCEPT !.args.calendarId =
                           ResolveCalendarId(it.explicit, it.alias,
                                             env.calendars)]
                   ELSE it.line
          IN /\ input' = Append(input, l)
             /\ intents' = [intents EXCEPT ![i].asked = TRUE]
  /\ UNCHANGED <<variant, notionUserId, lines, stage, microq, out, err,
                 calls, notionProxy, initCalls, closed, proc, env, exitCode>>

Next ==
  \/ Startup
  \/ ReadLine
  \/ RunMicrotask
  \/ \E n \in 1..Len(lines), ok \in BOOLEAN : InitProxySettle(n, ok)
  \/ \E n \in 1..Len(lines), ok \in BOOLEAN, e \in RemoteErrors :
       RemoteSettle(n, ok, e)
  \/ CloseInput
  \/ Drain

\* all five servers, the Google server with its client
NextServices == Next \/ SkillRequest


\* ------------------------------------------------------------------ inputs
SeqsUpTo(S, n) == UNION {[1..k -> S] : k \in 0..n}

\* action names a caller may send: the advertised ones, one that is nowhere
\* defined, a name every JavaScript object inherits, and none at all
ActionUniverse == NotionAction \cup {"delete_everything", "constructor", UNDEF}

WithAction(a) == [NoArgs EXCEPT !.action = a]

\* a create request with the convenience title and an empty property bag
CreateItem ==
  [NoArgs EXCEPT !.action = "create_page", !.database_id = "D1",
                 !.title = "Fix bug", !.properties = PropsOf(<<>>)]

\* lines of the transport specification
TransportAlphabet(v) ==
  IF v = "sdk"
  THEN {Request(1, "tools/list"),
        ToolCall(2, "use_notion", WithAction("get_self")),
        ToolCall(1, "use_notion", WithAction("get_page")),
        ToolCall(2, "use_notion", WithAction("delete_everything")),
        ToolCall(1, "use_notion", CreateItem),
        ToolCallNoArgs(1, "use_notion")}
  ELSE {Garbage, JsonNull,
        Request(1, "initialize"), Request(2, "initialize"),
        Request(1, "tools/list"),
        Request(1, "ping"), Request(2, "ping"),
        ToolCall(2, "use_notion", WithAction("get_self")),
        ToolCall(1, "use_notion", WithAction("get_page")),
        ToolCall(2, "use_notion", WithAction("delete_everything")),
        ToolCall(1, "other_tool", WithAction("get_self")),
        ToolCall(1, "use_notion", CreateItem),
        ToolCallNoArgs(2, "use_notion")}

UserIds(v) == IF v = "sdk" THEN {UNDEF, "ME"} ELSE {UNDEF}

\* the environment of a process: token variables, NOTION_USER_ID and the
\* state of the saved Google tokens
Env(token, apiKey, userId, savedTokens, calendars) ==
  [NOTION_TOKEN |-> token, NOTION_API_KEY |-> apiKey,
   NOTION_USER_ID |-> userId, savedTokens |-> savedTokens,
   calendars |-> calendars]

\* CALENDAR_WORK and CALENDAR_PERSONAL, by alias
Calendars(work, personal) == [work |-> work, personal |-> personal]

\* a fully configured Notion server, with or without an acting user
ConfiguredEnvs(v) ==
  {Env("secret", "secret", u, "valid", Calendars(UNDEF, UNDEF)) :
     u \in UserIds(v)}

\* a process before its module initialisation has run
InitServer ==
  /\ notionUserId = UNDEF
  /\ lines = <<>> /\ stage = <<>> /\ microq = <<>>
  /\ out = <<>> /\ err = <<>> /\ calls = <<>>
  /\ notionProxy = 0 /\ initCalls = 0
  /\ closed = FALSE /\ proc = "starting" /\ exitCode = 0

InitCommon ==
  /\ variant \in Variants
  /\ env \in ConfiguredEnvs(variant)
  /\ intents = <<>>
  /\ InitServer

Init ==
  /\ InitCommon
  /\ input \in SeqsUpTo(TransportAlphabet(variant), MaxLines)

Spec == Init /\ [][Next]_vars

\* ---- argument bags of the dispatch specification
\* the identifier an action needs: three cases (undefined, "", a value)
RequiredKeys(a) ==
  CASE a \in {"query_database", "get_database", "update_database",
              "create_page"} -> {"database_id"}
    [] a \in {"get_page", "update_page", "get_page_property"} -> {"page_id"}
    [] a \in {"get_block_children", "append_block_children", "get_block",
              "update_block", "delete_block", "get_comments"} -> {"block_id"}
    [] a = "get_user" -> {"user_id"}
    [] a = "create_comment" -> {"content"}
    [] OTHER -> {}

\* further keys an action reads: two cases (undefined, a value)
OptionalKeys(a) ==
  CASE a \in {"query_database", "get_block_children", "list_users",
              "search"} -> {"limit"}
    [] a \in {"create_database", "create_page"} -> {"parent", "title"}
    [] a = "update_database" -> {"title", "properties"}
    [] a = "update_page" -> {"properties"}
    [] a = "get_page_property" -> {"property_id"}
    [] a = "append_block_children" -> {"page_id", "content", "children"}
    [] a = "update_block" -> {"content"}
    [] a = "create_comment" -> {"parent"}
    [] OTHER -> {}

SampleValue(k) ==
  CASE k = "database_id" -> "D1" [] k = "page_id" -> "P1"
    [] k = "block_id" -> "B1" [] k = "user_id" -> "U9"
    [] k = "property_id" -> "pr1" [] k = "title" -> "T"
    [] k = "content" -> "hello"

StringVals(a, k) ==
  IF k \in RequiredKeys(a) THEN {UNDEF, "", SampleValue(k)}
  ELSE IF k \in OptionalKeys(a) THEN {UNDEF, SampleValue(k)}
  ELSE {UNDEF}

SampleProps == PropsOf([k \in {"Status"} |->
                 PropValue("object", FALSE, FALSE, <<>>, <<"select", "Open">>)])

DispatchBags(a) ==
  {[action |-> a, database_id |-> d, page_id |-> p, block_id |-> b,
    user_id |-> u, property_id |-> q, title |-> t, content |-> c,
    parent |-> par, properties |-> pr, children |-> ch, limit |-> lim] :
     d \in StringVals(a, "database_id"), p \in StringVals(a, "page_id"),
     b \in StringVals(a, "block_id"), u \in StringVals(a, "user_id"),
     q \in StringVals(a, "property_id"), t \in StringVals(a, "title"),
     c \in StringVals(a, "content"),
     par \in IF "parent" \in OptionalKeys(a)
             THEN {NoParent, ParentOf("page_id", "P1")} ELSE {NoParent},
     pr \in IF "properties" \in OptionalKeys(a)
            THEN {NoProps, SampleProps} ELSE {NoProps},
     ch \in IF "children" \in OptionalKeys(a)
            THEN {NoChildren, ChildrenOf(<<>>),
                  ChildrenOf(<<<<"heading", "h">>>>)}
            ELSE {NoChildren},
     lim \in IF "limit" \in OptionalKeys(a)
             THEN {NoLimit, LimitOf(0), LimitOf(5)} ELSE {NoLimit}}

DispatchAlphabet ==
  {ToolCall(1, "use_notion", bag) :
     bag \in UNION {DispatchBags(a) : a \in ActionUniverse}}

InitDispatch ==
  /\ InitCommon
  /\ input \in SeqsUpTo(DispatchAlphabet, MaxCalls)

SpecDispatch == InitDispatch /\ [][Next]_vars

\* ---- property bags of the create_page specification
PropNames == <<"DRI", "title", "Watch", "Status">>

PropKeys == {PropNames[i] : i \in 1..MaxProps}

PropValues ==
  {PropValue("null", FALSE, FALSE, <<>>, <<>>),
   PropValue("string", FALSE, FALSE, <<>>, <<"text">>),
   PropValue("object", FALSE, FALSE, <<>>, <<"select", "Open">>),
   PropValue("object", TRUE, FALSE, <<>>, <<>>),
   PropValue("object", TRUE, TRUE, <<>>, <<>>),
   PropValue("object", TRUE, TRUE, <<"U1">>, <<"note">>),
   PropValue("object", TRUE, TRUE, <<"ME">>, <<>>)}

\* a page with both role fields present and nobody assigned
RoleProps ==
  PropsOf([k \in {"DRI", "Watch"} |->
             PropValue("object", TRUE, TRUE, <<>>, <<>>)])

PropBags ==
  {NoProps, RoleProps} \cup
  {PropsOf(f) : f \in UNION {[K -> PropValues] : K \in SUBSET PropKeys}}

CreateBags ==
  {[NoArgs EXCEPT !.action = "create_page", !.database_id = d, !.parent = par,
                  !.title = t, !.properties = pr] :
     d \in {UNDEF, "D1"}, par \in {NoParent, ParentOf("page_id", "P1")},
     t \in {UNDEF, "Fix bug"}, pr \in PropBags}

InitCreate ==
  /\ InitCommon
  /\ input \in {<<ToolCall(1, "use_notion", bag)>> : bag \in CreateBags}

SpecCreate == InitCreate /\ [][Next]_vars

\* ---------------------------------------------- inputs of all five servers
\* one action per bag with its required keys undefined, empty or set and
\* everything optional left out
RequiredBags(a) ==
  {bag \in DispatchBags(a) :
     /\ bag.parent = NoParent /\ bag.properties = NoProps
     /\ bag.children = NoChildren /\ bag.limit = NoLimit
     /\ \A k \in OptionalKeys(a) \cap {"title", "content", "page_id",
                                       "property_id"} : bag[k] = UNDEF}

RequiredAlphabet ==
  {ToolCall(1, "use_notion", bag) :
     bag \in UNION {RequiredBags(a) : a \in ActionUniverse}}

StartupAlphabet ==
  {Request(1, "tools/list"),
   ToolCall(2, "use_notion", WithAction("get_self"))}

\* NOTION_TOKEN and NOTION_API_KEY unset, blank or set; NOTION_USER_ID
\* unset, blank or set
StartupEnvs(v) ==
  {Env(t, k, u, "valid", Calendars(UNDEF, UNDEF)) :
     t \in {UNDEF, " ", "secret"}, k \in {UNDEF, " ", "key"},
     u \in UserIds(v) \cup {" "}}

\* the saved Google tokens and the calendar variables of the environment
GoogleEnvs ==
  {Env(UNDEF, UNDEF, UNDEF, st, Calendars(w, p)) :
     st \in {"valid", "invalid", "throws"},
     w \in {UNDEF, "work@company.com"}, p \in {UNDEF, "me@gmail.com"}}

\* a request the client writes as it is
Ask(line) ==
  [line |-> line, resolve |-> FALSE, explicit |-> UNDEF, alias |-> UNDEF,
   asked |-> FALSE]

\* a calendar request: the user named a calendar id, an alias, or neither
CalendarAsk(line, explicit, alias) ==
  [line |-> line, resolve |-> TRUE, explicit |-> explicit, alias |-> alias,
   asked |-> FALSE]

GoogleAction(a) == [GoogleNoArgs EXCEPT !.action = a]

\* the second name under which an action accepts its identifier
AltKey(a) ==
  CASE a \in {"get_message", "modify_message", "trash_message",
              "delete_message"} -> "messageId"
    [] a \in {"get_thread", "modify_thread", "trash_thread",
              "untrash_thread", "delete_thread"} -> "threadId"
    [] a \in {"get_draft", "send_draft", "delete_draft"} -> "draftId"
    [] a \in {"get_label", "update_label", "delete_label"} -> "labelId"

IdActions ==
  {"get_message", "modify_message", "trash_message", "delete_message",
   "get_thread", "modify_thread", "trash_thread", "untrash_thread",
   "delete_thread", "get_draft", "send_draft", "delete_draft", "get_label",
   "update_label", "delete_label"}

IdPairs(a) ==
  IF a = "get_message"
  THEN {UNDEF, "", "m1"} \X {UNDEF, "", "m2"}
  ELSE {<<UNDEF, UNDEF>>, <<"", "">>, <<UNDEF, "x2">>, <<"x1", UNDEF>>}

IdBags ==
  UNION {{[[GoogleAction(a) EXCEPT !.id = pr[1]] EXCEPT ![AltKey(a)] = pr[2]] :
            pr \in IdPairs(a)} : a \in IdActions}

\* a@x.com, b@y.org, c@z.net, d@w.io
AddrA == <<97, 64, 120, 46, 99, 111, 109>>
AddrB == <<98, 64, 121, 46, 111, 114, 103>>
AddrC == <<99, 64, 122, 46, 110, 101, 116>>
AddrD == <<100, 64, 119, 46, 105, 111>>

\* {to: ["a@x.com"], subject: "S", body: "B"}
MailSimple ==
  [GoogleNoArgs EXCEPT !.to = ListOf(<<AddrA>>), !.subject = TextOf(<<83>>),
                       !.body = TextOf(<<66>>)]

\* two recipients, cc, bcc, subject "ok?", body "x>?", in a thread
MailFull ==
  [GoogleNoArgs EXCEPT !.to = ListOf(<<AddrA, AddrB>>),
                       !.cc = ListOf(<<AddrC>>), !.bcc = ListOf(<<AddrD>>),
                       !.subject = TextOf(<<111, 107, 63>>),
                       !.body = TextOf(<<120, 62, 63>>), !.threadId = "t1"]

MailBags ==
  {[m EXCEPT !.action = a] :
     m \in {MailSimple, MailFull, GoogleNoArgs,
            [MailSimple EXCEPT !.raw = ""],
            [MailSimple EXCEPT !.raw = "cmF3"],
            [MailFull EXCEPT !.raw = "cmF3"]},
     a \in {"send_message", "create_draft"}}

OtherGmailBags ==
  {GoogleAction(a) : a \in {"list_messages", "list_threads", "list_drafts",
                            "list_labels", "get_profile", "purge_mailbox"}}
  \cup {[GoogleAction("create_label") EXCEPT !.name = n] :
          n \in {UNDEF, "", "L"}}
  \cup {[GoogleAction("get_attachment") EXCEPT !.messageId = m,
                                               !.attachmentId = t] :
          m \in {UNDEF, "", "m1"}, t \in {UNDEF, "", "a1"}}
  \cup {[GoogleAction(a) EXCEPT !.ids = l] :
          a \in {"batch_modify_messages", "batch_delete_messages"},
          l \in {NoList, ListOf(<<>>), ListOf(<<"m1">>)}}

GmailAsks ==
  {Ask(ToolCall(1, "use_gmail", bag)) :
     bag \in IdBags \cup MailBags \cup OtherGmailBags}
  \cup {Ask(ToolCallNoArgs(2, "use_gmail"))}

CalendarAsks ==
  {CalendarAsk(ToolCall(1, "use_google_calendar", GoogleAction(a)), x, al) :
     a \in {"list-events", "drop-calendar"},
     x \in {UNDEF, "team@group.calendar.google.com"},
     al \in {UNDEF, "work", "gym"}}
  \cup {Ask(Request(2, "tools/list")),
        Ask(ToolCall(2, "use_gmail", GoogleAction("get_profile")))}

InitServices ==
  /\ InitServer
  /\ \/ /\ variant \in Variants
        /\ intents = <<>>
        /\ \/ /\ env \in ConfiguredEnvs(variant)
              /\ input \in SeqsUpTo(RequiredAlphabet, MaxCalls)
           \/ /\ env \in StartupEnvs(variant)
              /\ input \in SeqsUpTo(StartupAlphabet, MaxCalls)
     \/ /\ variant = "google"
        /\ input = <<>>
        /\ \/ /\ env = Env(UNDEF, UNDEF, UNDEF, "valid",
                           Calendars(UNDEF, UNDEF))
              /\ intents \in SeqsUpTo(GmailAsks, MaxCalls)
           \/ /\ env \in GoogleEnvs
              /\ intents \in SeqsUpTo(CalendarAsks, MaxCalls)

SpecServices == InitServices /\ [][NextServices]_vars



\* ============================================================== properties
IsRequest(l) == l.kind = "request"
IsToolCall(l) == IsRequest(l) /\ l.method = "tools/call"
IsPlainRequest(l) == IsRequest(l) /\ l.method # "tools/call"

\* positions in stdout of the responses triggered by line n
ResponsesTo(n) == {k \in DOMAIN out : out[k].line = n}
\* positions in the call log of the remote calls made for line n
CallsFor(n) == {k \in DOMAIN calls : calls[k].line = n}

\* the handler of line n has run to its end
Finished(n) == stage[n] \in {"logged", "done", "resolved", "rejected"}

\* the response a request that is not a tools/call gets
PlainResponse(v, n, l) ==
  CASE l.method = "initialize" -> InitializeResponse(v, n, l.id)
    [] l.method = "tools/list" -> ToolsListResponse(v, n, l.id)
    [] OTHER -> MethodNotFoundResponse(v, n, l.id, l.method)

\* a message that rejects the action as unknown: the dispatcher's own
\* "Unknown action: x" or the schema's invalid_enum_value for key action
SaysUnknownAction(msg, a) ==
  /\ Mentions(msg, a)
  /\ Mentions(msg, "Unknown action: ") \/ Mentions(msg, "invalid_enum_value")

\* ---- C1
\* the required parameter of an action, as the claim lists them
C1_Required(a) ==
  CASE a \in {"query_database", "get_database", "update_database"} ->
         "database_id"
    [] a \in {"get_page", "update_page", "get_page_property"} -> "page_id"
    [] a \in {"get_block", "update_block", "delete_block",
              "get_block_children", "get_comments"} -> "block_id"
    [] a = "get_user" -> "user_id"
    [] a = "create_comment" -> "content"
    [] OTHER -> UNDEF

C1_Omitted(l) ==
  /\ IsToolCall(l) /\ l.name = "use_notion" /\ l.hasArgs
  /\ C1_Required(l.args.action) # UNDEF
  /\ l.args[C1_Required(l.args.action)] = UNDEF

C1_Rejected(n) ==
  /\ CallsFor(n) = {}
  /\ Finished(n) =>
       \E k \in ResponsesTo(n) :
         /\ out[k].isError
         /\ Mentions(out[k].text, C1_Required(lines[n].args.action))
         /\ Mentions(out[k].text, lines[n].args.action)

\* C1: in every server variant, a use_notion call that omits the required
\* parameter of its action makes no call on the Notion client and is answered
\* with an error result whose message names the parameter and the action.
C1_MissingParamRejected ==
  \A n \in DOMAIN lines : C1_Omitted(lines[n]) => C1_Rejected(n)

\* C1, SDK variant alone: requireParam rejects the omitted parameter before
\* the client is called.
C1_SdkMissingParamRejected ==
  variant = "sdk" => C1_MissingParamRejected

C1_SdkWitness ==
  /\ variant = "sdk"
  /\ \E n \in DOMAIN lines :
       C1_Omitted(lines[n]) /\ stage[n] = "rejected" /\ ResponsesTo(n) # {}

\* ---- C2
C2_UnknownActionCall(l) ==
  /\ IsToolCall(l) /\ l.name = "use_notion" /\ l.hasArgs
  /\ l.args.action # UNDEF /\ l.args.action \notin tools(variant)

\* C2: a tools/call whose action is not in the advertised action set makes
\* no remote call, never crashes the process, and its handler ends with an
\* error result that rejects that action as unknown.
C2_UnknownActionRejected ==
  /\ proc # "crashed"
  /\ \A n \in DOMAIN lines :
       C2_UnknownActionCall(lines[n]) =>
         /\ CallsFor(n) = {}
         /\ stage[n] \notin {"init", "remote", "resolved"}
         /\ Finished(n) =>
              \E k \in ResponsesTo(n) :
                /\ out[k].isError /\ out[k].id = lines[n].id
                /\ SaysUnknownAction(out[k].text, lines[n].args.action)

\* C2 in the variants whose dispatcher is a switch or a schema enum
C2_SwitchVariantsRejectUnknown ==
  variant # "proxy" => C2_UnknownActionRejected

C2_SwitchWitness ==
  /\ variant # "proxy"
  /\ \E n \in DOMAIN lines :
       /\ C2_UnknownActionCall(lines[n]) /\ stage[n] = "rejected"
       /\ \E k \in ResponsesTo(n) : out[k].isError

\* ---- C3
\* C3: in the line-reader servers every response line on stdout belongs to
\* exactly one request line read before it and carries that request's id,
\* and no line has more than one response.
C3_OneResponsePerRequest ==
  variant \in LineReaders =>
    \A k \in DOMAIN out :
      /\ out[k].line \in DOMAIN lines
      /\ IsRequest(lines[out[k].line])
      /\ out[k].id = lines[out[k].line].id
      /\ \A j \in DOMAIN out : out[j].line = out[k].line => j = k

C3_Witness ==
  /\ variant \in LineReaders
  /\ Len(out) >= 2
  /\ \E k \in DOMAIN out : IsToolCall(lines[out[k].line])
  /\ \E j, k \in DOMAIN out : out[j].id # out[k].id

\* ---- C4
\* C4: when the process has ended, every request line it read has had its
\* response written, a tools/call still awaiting its remote call at end of
\* input included.
C4_AllRequestsAnswered ==
  (variant \in LineReaders /\ proc = "exited") =>
    \A n \in DOMAIN lines : IsRequest(lines[n]) => ResponsesTo(n) # {}

\* ---- C5
\* C5 as claimed: responses appear on stdout in the order in which their
\* requests were read.
C5_ResponsesInRequestOrder ==
  variant \in LineReaders =>
    \A j, k \in DOMAIN out : j < k => out[j].line < out[k].line

\* C5 as amended: a request other than tools/call is answered before the
\* next line is read, so only a tools/call response is ever written after
\* the response of a line read later.
C5_OnlyToolCallsAreOvertaken ==
  variant \in LineReaders =>
    /\ \A n \in DOMAIN lines :
         IsPlainRequest(lines[n]) => ResponsesTo(n) # {}
    /\ \A j, k \in DOMAIN out :
         (j < k /\ out[j].line > out[k].line) =>
           IsToolCall(lines[out[k].line])

C5_Witness ==
  /\ variant \in LineReaders
  /\ \E j, k \in DOMAIN out :
       /\ j < k /\ out[j].line > out[k].line
       /\ IsToolCall(lines[out[k].line])
       /\ IsPlainRequest(lines[out[j].line])


\* ---- C6
\* once started, the process never stops while lines are still unread
ReaderAlive == input # <<>> => proc \in {"starting", "running"}

\* every request read after line n that is not a tools/call has its response
LaterPlainRequestsAnswered(n) ==
  \A m \in DOMAIN lines :
    (m > n /\ IsPlainRequest(lines[m])) =>
      \E k \in ResponsesTo(m) : out[k] = PlainResponse(variant, m, lines[m])

\* C6: a line that is not JSON writes nothing to stdout and is reported on
\* stderr; the reader keeps running and every request on a later line still
\* gets its response.
C6_MalformedLineSkipped ==
  variant \in LineReaders =>
    /\ proc # "crashed" /\ ReaderAlive
    /\ \A n \in DOMAIN lines :
         lines[n].kind = "garbage" =>
           /\ ResponsesTo(n) = {}
           /\ \E i \in DOMAIN err : err[i] = n
           /\ LaterPlainRequestsAnswered(n)
           /\ \A m \in DOMAIN lines :
                (m > n /\ IsToolCall(lines[m]) /\ Finished(m)) =>
                  ResponsesTo(m) # {}

C6_Witness ==
  /\ variant \in LineReaders
  /\ \E n, m \in DOMAIN lines :
       /\ lines[n].kind = "garbage" /\ m > n
       /\ IsToolCall(lines[m]) /\ stage[m] = "resolved"
       /\ ResponsesTo(m) # {} /\ ResponsesTo(n) = {}

\* ---- C7
\* the response a finished tools/call gets, from its own line and outcome
ToolCallResponse(v, n, l, st, k) ==
  IF st = "resolved"
  THEN out[k] = ToolResultResponse(v, n, l.id,
                  SyncOutcome(v, notionUserId, l).op)
  ELSE /\ out[k].isError /\ out[k].hasResult /\ ~out[k].hasError
       /\ out[k].id = l.id /\ out[k].line = n
       /\ SyncOutcome(v, notionUserId, l).threw =>
            out[k] = ToolErrorResponse(v, n, l.id,
                       SyncOutcome(v, notionUserId, l).msg)

\* C7: a tools/call that fails (unknown tool, unknown action, no arguments
\* object, rejected remote call) is answered with a result whose isError is
\* true; the process does not crash, keeps reading, and every later request
\* is answered from its own content and outcome alone.
C7_FailureIsContained ==
  /\ proc # "crashed" /\ ReaderAlive
  /\ \A n \in DOMAIN lines :
       (IsToolCall(lines[n]) /\ stage[n] = "rejected") =>
         /\ Cardinality(ResponsesTo(n)) = 1
         /\ \A k \in ResponsesTo(n) :
              out[k].isError /\ out[k].hasResult /\ out[k].id = lines[n].id
         /\ LaterPlainRequestsAnswered(n)
         /\ \A m \in DOMAIN lines :
              (m > n /\ IsToolCall(lines[m]) /\ Finished(m)) =>
                /\ Cardinality(ResponsesTo(m)) = 1
                /\ \A k \in ResponsesTo(m) :
                     ToolCallResponse(variant, m, lines[m], stage[m], k)

C7_Witness ==
  \E n, m \in DOMAIN lines :
    /\ IsToolCall(lines[n]) /\ stage[n] = "rejected"
    /\ CallsFor(n) # {}
    /\ m > n /\ IsToolCall(lines[m]) /\ stage[m] = "resolved"
    /\ \E k \in ResponsesTo(m) : ~out[k].isError

\* ---- C8
C8_UnknownMethod(l) ==
  IsRequest(l) /\ l.method \notin {"initialize", "tools/list", "tools/call"}

\* C8: a request with any other method is answered with an error envelope
\* of code -32601 that has no result field and carries the request's id; it
\* makes no remote call and does not crash the server.
C8_MethodNotFound ==
  variant \in LineReaders =>
    /\ proc # "crashed"
    /\ \A n \in DOMAIN lines :
         C8_UnknownMethod(lines[n]) =>
           /\ CallsFor(n) = {}
           /\ Cardinality(ResponsesTo(n)) = 1
           /\ \A k \in ResponsesTo(n) :
                /\ out[k].hasError /\ ~out[k].hasResult
                /\ out[k].code = -32601
                /\ out[k].id = lines[n].id

C8_Witness ==
  /\ variant \in LineReaders
  /\ \E n \in DOMAIN lines :
       C8_UnknownMethod(lines[n]) /\ lines[n].id = 2 /\ ResponsesTo(n) # {}

\* ---- C9
\* the dispatcher of variant v reaches its unknown-action branch for a
ReachesUnknownBranch(v, a) ==
  LET o == SyncOutcome(v, UNDEF, ToolCall(1, "use_notion", WithAction(a)))
  IN o.threw /\ SaysUnknownAction(o.msg, a)

Dispatchable(v) ==
  {a \in ActionUniverse \ {UNDEF} : ~ReachesUnknownBranch(v, a)}

\* C9: the action enum a tools/list response advertises is exactly the set
\* of action names the dispatcher of that server handles without reaching
\* its unknown-action branch.
C9_AdvertisedEqualsDispatchable ==
  \A k \in DOMAIN out :
    out[k].body = "tools" => out[k].enum = Dispatchable(variant)

\* C9 in the variants whose dispatcher is a switch or a schema enum
C9_SwitchVariantsNoDrift ==
  variant # "proxy" => C9_AdvertisedEqualsDispatchable

\* ---- C10
HasPeople(v) ==
  v.shape = "object" /\ v.hasPeople /\ v.isArray /\ Len(v.people) > 0

\* C10: in create_page, a property whose people list is not empty reaches
\* the remote create call with exactly the caller's value.
C10_AssignedPeopleUntouched ==
  variant = "sdk" =>
    \A k \in DOMAIN calls :
      LET a == lines[calls[k].line].args IN
      (calls[k].op = "pages.create" /\ a.properties.def) =>
        \A f \in DOMAIN a.properties.val :
          HasPeople(a.properties.val[f]) =>
            /\ calls[k].sent.properties.def
            /\ f \in DOMAIN calls[k].sent.properties.val
            /\ calls[k].sent.properties.val[f] = a.properties.val[f]

C10_Witness ==
  /\ variant = "sdk" /\ notionUserId = "ME"
  /\ \E k \in DOMAIN calls :
       LET a == lines[calls[k].line].args IN
       /\ calls[k].op = "pages.create" /\ a.properties.def
       /\ \E f, g \in DOMAIN a.properties.val :
            /\ a.properties.val[f].people = <<"U1">>
            /\ a.properties.val[g].isArray
            /\ a.properties.val[g].people = <<>>
            /\ calls[k].sent.properties.val[g].people = <<"ME">>

\* ---- C11
\* an object value whose people key holds an empty list
EmptyPeople(v) ==
  v.shape = "object" /\ v.hasPeople /\ v.isArray /\ Len(v.people) = 0

\* the create_page calls of the SDK server, with the arguments they came from
CreateCalls ==
  {k \in DOMAIN calls :
     /\ calls[k].op = "pages.create"
     /\ lines[calls[k].line].args.action = "create_page"}

GivenProps(a) == IF a.properties.def THEN a.properties.val ELSE <<>>

\* C12: auto-assignment keeps the key set, returns every value that is not
\* an empty people list as it was, and without an acting user returns the
\* whole bag as it was (seen on create_page calls without a title, where
\* the bag sent is the bag auto-assignment returned).
C12_AutoAssignFrame ==
  variant = "sdk" =>
    \A k \in CreateCalls :
      LET a == lines[calls[k].line].args
          given == GivenProps(a)
          sent == calls[k].sent.properties
      IN ~Truthy(a.title) =>
           /\ sent.def
           /\ DOMAIN sent.val = DOMAIN given
           /\ \A f \in DOMAIN given :
                ~EmptyPeople(given[f]) => sent.val[f] = given[f]
           /\ ~Truthy(notionUserId) => sent.val = given

C12_Witness ==
  /\ variant = "sdk" /\ notionUserId = "ME"
  /\ \E k \in CreateCalls :
       LET a == lines[calls[k].line].args IN
       /\ ~Truthy(a.title) /\ a.properties.def
       /\ "DRI" \notin DOMAIN a.properties.val
       /\ \E f \in DOMAIN a.properties.val :
            /\ ~EmptyPeople(a.properties.val[f])
            /\ a.properties.val[f].hasPeople
            /\ calls[k].sent.properties.val[f] = a.properties.val[f]

\* ---- C13
\* the create requests that were turned into a remote call, any server
CreateCallsOf(d) ==
  {k \in DOMAIN calls :
     LET a == lines[calls[k].line].args IN
     /\ lines[calls[k].line].hasArgs
     /\ a.action = "create_page" /\ a.database_id = d /\ ~a.parent.def}

\* the title-typed property key the remote schema of a container reports
SchemaTitleKey(d) == IF d = "D1" THEN "Name" ELSE "title"

\* C13: a create request with database_id D1, title "Fix bug" and empty
\* properties, against a container whose title property is "Name", makes a
\* remote create call whose properties are exactly {Name: title "Fix bug"}.
C13_TitleUnderSchemaKey ==
  \A k \in CreateCallsOf("D1") :
    LET a == lines[calls[k].line].args IN
    (a.title = "Fix bug" /\ a.properties = PropsOf(<<>>)) =>
      /\ calls[k].sent.properties.def
      /\ calls[k].sent.properties.val =
           [f \in {SchemaTitleKey("D1")} |-> TitleProp("Fix bug")]

\* ---- C14
\* the remote calls that read a container's schema
SchemaLookups(d) ==
  {k \in DOMAIN calls :
     /\ calls[k].op \in {"databases.retrieve", "get-database-GET"}
     /\ calls[k].sent.database_id = d}

\* C14: once two create calls against the same container have been made,
\* exactly one schema lookup for that container has been issued.
C14_OneSchemaLookup ==
  \A d \in {"D1"} :
    Cardinality(CreateCallsOf(d)) >= 2 => Cardinality(SchemaLookups(d)) = 1


\* the line the client wrote for its j-th request
WrittenLine(j) ==
  IF j <= Len(lines) THEN lines[j] ELSE input[j - Len(lines)]

\* the requests the client has written so far
Asked == {j \in DOMAIN intents : intents[j].asked}

MailFields(a) == <<a.to, a.cc, a.bcc, a.subject, a.body>>

\* the calls that carry a message built from the structured input
BuiltMessageCalls ==
  {k \in DOMAIN calls :
     /\ calls[k].op \in {"users.messages.send", "users.drafts.create"}
     /\ ~Truthy(lines[calls[k].line].args.raw)}

\* base64url of "To: a@x.com\r\nSubject: S\r\nContent-Type: text/plain;
\* charset=utf-8\r\nMIME-Version: 1.0\r\n\r\nB"
EncodedSimple ==
  "VG86IGFAeC5jb20NClN1YmplY3Q6IFMNCkNvbnRlbnQtVHlwZTogdGV4dC9wbGFpbjsg" \o
  "Y2hhcnNldD11dGYtOA0KTUlNRS1WZXJzaW9uOiAxLjANCg0KQg"

\* base64url of "To: a@x.com, b@y.org\r\nCc: c@z.net\r\nBcc: d@w.io\r\n
\* Subject: ok?\r\nContent-Type: ...\r\nMIME-Version: 1.0\r\n\r\nx>?"
EncodedFull ==
  "VG86IGFAeC5jb20sIGJAeS5vcmcNCkNjOiBjQHoubmV0DQpCY2M6IGRAdy5pbw0KU3Vi" \o
  "amVjdDogb2s_DQpDb250ZW50LVR5cGU6IHRleHQvcGxhaW47IGNoYXJzZXQ9dXRmLTgN" \o
  "Ck1JTUUtVmVyc2lvbjogMS4wDQoNCng-Pw"

\* base64url of "Content-Type: ...\r\nMIME-Version: 1.0\r\n\r\n"
EncodedEmpty ==
  "Q29udGVudC1UeXBlOiB0ZXh0L3BsYWluOyBjaGFyc2V0PXV0Zi04DQpNSU1FLVZlcnNp" \o
  "b246IDEuMA0KDQo"

\* C16: the encoded message of a send_message or create_draft call is a
\* function of to, cc, bcc, subject and body alone: equal fields give the
\* same bytes whatever the action, thread or moment, the bytes are the
\* base64url text of the headers To, Cc, Bcc, Subject, Content-Type,
\* MIME-Version, an empty line and the body, in this order, joined by CRLF.
C16_EncodedMessageDeterministic ==
  variant = "google" =>
    /\ \A k \in BuiltMessageCalls :
         LET f == MailFields(lines[calls[k].line].args)
             raw == calls[k].sent.raw
         IN /\ f = MailFields(MailSimple) => raw = EncodedSimple
            /\ f = MailFields(MailFull) => raw = EncodedFull
            /\ f = MailFields(GoogleNoArgs) => raw = EncodedEmpty
    /\ \A k1, k2 \in BuiltMessageCalls :
         MailFields(lines[calls[k1].line].args)
           = MailFields(lines[calls[k2].line].args)
         => calls[k1].sent.raw = calls[k2].sent.raw
    /\ createEmailMessage(MailFull) =
         HeaderTo \o AddrA \o CommaSpace \o AddrB \o CRLF
         \o HeaderCc \o AddrC \o CRLF
         \o HeaderBcc \o AddrD \o CRLF
         \o HeaderSubject \o <<111, 107, 63>> \o CRLF
         \o HeaderContentType \o CRLF
         \o HeaderMimeVersion \o CRLF
         \o CRLF
         \o <<120, 62, 63>>

\* C16 witness: a draft was created from the message with all five fields
C16_Witness ==
  /\ variant = "google"
  /\ \E k \in BuiltMessageCalls :
       /\ calls[k].op = "users.drafts.create"
       /\ MailFields(lines[calls[k].line].args) = MailFields(MailFull)
       /\ calls[k].sent.raw = EncodedFull


\* an environment value that is not set or holds only white space
Blank(s) == s \in {UNDEF, "", " "}

\* the mandatory credentials of the server are missing
MissingCredentials ==
  \/ /\ variant = "sdk"
     /\ Blank(env.NOTION_TOKEN) /\ Blank(env.NOTION_API_KEY)
  \/ /\ variant = "google"
     /\ env.savedTokens # "valid"

C18_AtMostOneRemoteCall ==
  /\ \A n \in DOMAIN lines : Cardinality(CallsFor(n)) <= 1
  /\ \A k \in DOMAIN calls : IsToolCall(lines[calls[k].line])
  /\ Len(calls) <= Cardinality({n \in DOMAIN lines : IsToolCall(lines[n])})

\* C18 witness: the Gmail call of a request has failed, the error result is
\* written, and the request still has exactly one remote call
C18_Witness ==
  /\ variant = "google"
  /\ \E n \in DOMAIN lines :
       /\ lines[n].name = "use_gmail"
       /\ stage[n] = "rejected"
       /\ Cardinality(CallsFor(n)) = 1
       /\ \E k \in ResponsesTo(n) : out[k].isError


\* the create_page requests read so far
CreatePageLines ==
  {n \in DOMAIN lines :
     /\ IsToolCall(lines[n]) /\ lines[n].name = "use_notion"
     /\ lines[n].hasArgs /\ lines[n].args.action = "create_page"}

\* the parent rule of create_page for the request of line n
CreatePageParentRule(n) ==
  LET a == lines[n].args IN
  /\ a.parent.def =>
       /\ \A k \in CallsFor(n) : calls[k].sent.parent = a.parent
       /\ \A k \in ResponsesTo(n) : ~Mentions(out[k].text, "database_id")
  /\ (~a.parent.def /\ Truthy(a.database_id)) =>
       \A k \in CallsFor(n) :
         calls[k].sent.parent = ParentOf("database_id", a.database_id)
  /\ (~a.parent.def /\ ~Truthy(a.database_id)) =>
       /\ CallsFor(n) = {}
       /\ \A k \in ResponsesTo(n) :
            out[k].isError /\ Mentions(out[k].text, "database_id")

\* C19: in index-sdk.ts, index.ts and index-simple.ts a create_page request
\* with an explicit parent creates the page under that parent without
\* asking for database_id; without a parent it creates the page in the
\* database named by database_id; with neither it makes no remote call and
\* its result is an error that names database_id.
C19_CreatePageParent ==
  variant \in {"sdk", "index", "simple"} =>
    \A n \in CreatePageLines : CreatePageParentRule(n)

\* the SDK server alone follows the parent rule
C19_SdkCreatePageParent ==
  variant = "sdk" => \A n \in CreatePageLines : CreatePageParentRule(n)

\* an SDK create_page with a parent and no database_id was sent under that
\* parent
C19_SdkWitness ==
  /\ variant = "sdk"
  /\ \E n \in CreatePageLines :
       /\ lines[n].args.parent.def /\ lines[n].args.database_id = UNDEF
       /\ \E k \in CallsFor(n) : calls[k].sent.parent = lines[n].args.parent


\* a value given as the empty string or not given at all
EmptyOrOmitted(s) == s \in {UNDEF, ""}

\* the request of line n lacks a usable required identifier, and at least
\* one was supplied as the empty string
EmptyRequiredId(n) ==
  LET l == lines[n] IN
  /\ IsToolCall(l) /\ l.hasArgs
  /\ \/ /\ variant = "sdk" /\ l.name = "use_notion"
        /\ l.args.action \in NotionAction
        /\ ~l.args.parent.def
        /\ \E k \in RequiredKeys(l.args.action) \ {"content"} :
             l.args[k] = ""
     \/ /\ variant = "google" /\ l.name = "use_gmail"
        /\ l.args.action \in IdActions
        /\ EmptyOrOmitted(l.args.id)
        /\ EmptyOrOmitted(l.args[AltKey(l.args.action)])
        /\ "" \in {l.args.id, l.args[AltKey(l.args.action)]}

\* the request of line n was refused before any remote call
RefusedWithoutCall(n) ==
  /\ CallsFor(n) = {}
  /\ stage[n] \in {"micro", "rejected"}
  /\ \A k \in ResponsesTo(n) : out[k].isError

\* C20: a Notion or Gmail request whose required identifier is the empty
\* string is refused like one that omits it: no remote call is made for it
\* and its result is an error.
C20_EmptyIdIsMissing ==
  \A n \in DOMAIN lines : EmptyRequiredId(n) => RefusedWithoutCall(n)

\* the Notion SDK server alone refuses empty identifiers
C20_NotionEmptyIdIsMissing ==
  variant = "sdk" =>
    \A n \in DOMAIN lines : EmptyRequiredId(n) => RefusedWithoutCall(n)

\* get_page with page_id "" was answered by an error naming page_id and no
\* remote call was made
C20_NotionWitness ==
  /\ variant = "sdk"
  /\ \E n \in DOMAIN lines :
       /\ EmptyRequiredId(n)
       /\ lines[n].args.action = "get_page"
       /\ CallsFor(n) = {}
       /\ \E k \in ResponsesTo(n) :
            out[k].isError /\ Mentions(out[k].text, "page_id")


\* the actions that delete or trash their target
DeleteActions ==
  {"delete_block", "delete_message", "delete_thread", "delete_draft",
   "delete_label", "batch_delete_messages", "trash_message", "trash_thread"}

\* the delete and trash requests whose remote call has succeeded
DeletedLines ==
  {n \in DOMAIN lines :
     /\ IsToolCall(lines[n]) /\ lines[n].hasArgs
     /\ lines[n].args.action \in DeleteActions
     /\ stage[n] = "resolved"}

\* the shape of the value a successful tool result carries
ResultShape(r) == r.text[3]

\* C21: in index.ts, index-sdk.ts and the Gmail wrapper the result of every
\* successful delete or trash action is a confirmation (an identifier with
\* a boolean flag), never the object the remote service answered with.
C21_DeleteReturnsConfirmation ==
  variant \in {"index", "sdk", "google"} =>
    \A n \in DeletedLines :
      \A k \in ResponsesTo(n) : ResultShape(out[k]) = "confirmation"

\* index.ts alone answers delete_block with a confirmation
C21_IndexDeleteReturnsConfirmation ==
  variant = "index" =>
    \A n \in DeletedLines :
      \A k \in ResponsesTo(n) : ResultShape(out[k]) = "confirmation"

\* a delete_block of index.ts has succeeded and was answered
C21_IndexWitness ==
  /\ variant = "index"
  /\ \E n \in DeletedLines :
       \E k \in ResponsesTo(n) : ResultShape(out[k]) = "confirmation"


\* the keys of a request that carry a value (undefined ones are not
\* serialised)
SentDefined(sent) ==
  {k \in {"action", "database_id", "page_id", "block_id", "user_id",
          "property_id", "content"} : sent[k] # UNDEF}
  \cup {k \in {"title", "parent", "properties", "children", "limit",
               "page_size"} : sent[k].def}

\* the identifier an update action addresses
UpdateTarget(a) ==
  CASE a = "update_page" -> "page_id"
    [] a = "update_database" -> "database_id"
    [] a = "update_block" -> "block_id"

\* the remote calls made for update actions
UpdateCalls ==
  {k \in DOMAIN calls :
     LET l == lines[calls[k].line] IN
     /\ l.name = "use_notion" /\ l.hasArgs
     /\ l.args.action \in {"update_page", "update_database", "update_block"}}

\* the update request of call k carries the target and supplied fields only
UpdateFrame(k) ==
  LET a == lines[calls[k].line].args
      sent == calls[k].sent
      t == UpdateTarget(a.action)
  IN /\ sent[t] = a[t]
     /\ sent.action = UNDEF
     /\ SentDefined(sent) \subseteq (PresentKeys(a) \ {"action"}) \cup {t}

\* C22: in index.ts and index-sdk.ts the request of update_page,
\* update_database and update_block carries the target identifier and only
\* fields the caller supplied; a field the caller left out has no value in
\* the request, and the action key is not among the update fields.
C22_UpdateSendsOnlySupplied ==
  variant \in {"index", "sdk"} => \A k \in UpdateCalls : UpdateFrame(k)

\* index.ts alone keeps the update frame
C22_IndexUpdateSendsOnlySupplied ==
  variant = "index" => \A k \in UpdateCalls : UpdateFrame(k)

\* index.ts sent an update_database that names only the title
C22_IndexWitness ==
  /\ variant = "index"
  /\ \E k \in UpdateCalls :
       /\ lines[calls[k].line].args.action = "update_database"
       /\ SentDefined(calls[k].sent) = {"database_id", "title"}


\* the page size a listing action uses when the caller gives no limit
DefaultPageSize(a) ==
  IF a \in {"query_database", "search"} THEN 10 ELSE 100

\* the remote calls made for the listing actions that take a limit
LimitCalls ==
  {k \in DOMAIN calls :
     LET l == lines[calls[k].line] IN
     /\ l.name = "use_notion" /\ l.hasArgs
     /\ l.args.action \in {"query_database", "search", "get_block_children",
                           "list_users"}}

\* call k carries the caller's limit, or the default of its action
PageSizeRule(k) ==
  LET a == lines[calls[k].line].args IN
  calls[k].sent.page_size =
    IF a.limit.def THEN a.limit ELSE LimitOf(DefaultPageSize(a.action))

\* C23: in index.ts and index-sdk.ts query_database and search send page
\* size 10 and get_block_children and list_users page size 100 when no limit
\* is given, and send the given limit, 0 included, when there is one.
C23_PageSizeDefaults ==
  variant \in {"index", "sdk"} => \A k \in LimitCalls : PageSizeRule(k)

\* index.ts keeps the rule for an absent or non-zero limit
C23_IndexPageSizeDefaults ==
  variant = "index" =>
    \A k \in LimitCalls :
      lines[calls[k].line].args.limit # LimitOf(0) => PageSizeRule(k)

\* index.ts listed block children without a limit and asked for 100
C23_IndexWitness ==
  /\ variant = "index"
  /\ \E k \in LimitCalls :
       /\ lines[calls[k].line].args.action = "get_block_children"
       /\ ~lines[calls[k].line].args.limit.def
       /\ calls[k].sent.page_size = LimitOf(100)


\* the tool calls whose remote call was made and has failed
RemoteFailures ==
  {n \in DOMAIN lines : stage[n] = "rejected" /\ CallsFor(n) # {}}

\* C24: the error result of a tool call whose remote call failed carries the
\* code of the upstream error (object_not_found), not its message alone.
C24_UpstreamCodeCarried ==
  \A n \in RemoteFailures :
    \A k \in ResponsesTo(n) :
      \E e \in RemoteErrors : Mentions(out[k].text, e.code)

\* the upstream message, at least, is carried by every such error result
C24_UpstreamMessageCarried ==
  \A n \in RemoteFailures :
    \A k \in ResponsesTo(n) :
      /\ out[k].isError
      /\ \E e \in RemoteErrors : Mentions(out[k].text, e.message)

\* a failed remote call of the SDK server was answered with its message
C24_MessageWitness ==
  /\ variant = "sdk"
  /\ \E n \in RemoteFailures :
       \E k \in ResponsesTo(n) :
         Mentions(out[k].text, "Could not find object")


\* the acting user is among the people of property f of the request sent
AssignedTo(k, f) ==
  /\ calls[k].sent.properties.def
  /\ f \in DOMAIN calls[k].sent.properties.val
  /\ \E i \in DOMAIN calls[k].sent.properties.val[f].people :
       calls[k].sent.properties.val[f].people[i] = notionUserId

\* C25: when create_page is given DRI and Watch both with an empty people
\* list, the request sent never has the acting user in both of them.
C25_NotBothRoles ==
  (variant = "sdk" /\ Truthy(notionUserId)) =>
    \A k \in CreateCalls :
      LET given == GivenProps(lines[calls[k].line].args) IN
      ({"DRI", "Watch"} \subseteq DOMAIN given
         /\ EmptyPeople(given["DRI"]) /\ EmptyPeople(given["Watch"]))
      => ~(AssignedTo(k, "DRI") /\ AssignedTo(k, "Watch"))


\* the remote calls made for append_block_children
AppendCalls ==
  {k \in DOMAIN calls :
     LET l == lines[calls[k].line] IN
     /\ l.name = "use_notion" /\ l.hasArgs
     /\ l.args.action = "append_block_children"}

\* the children rule of append_block_children for call k
AppendRule(k) ==
  LET a == lines[calls[k].line].args
      given == IF a.children.def THEN a.children.val ELSE <<>>
  IN /\ Len(given) > 0 => calls[k].sent.children = a.children
     /\ (Truthy(a.content) /\ Len(given) = 0) =>
          calls[k].sent.children = ChildrenOf(<<ParagraphBlock(a.content)>>)

\* C26: in every server an append_block_children request with content and
\* no children, or an empty children list, sends exactly one paragraph block
\* holding the content; a non-empty children list is sent as it is.
C26_ContentBecomesParagraph ==
  \A k \in AppendCalls : AppendRule(k)

\* the SDK server and index-simple.ts keep the children rule
C26_SdkSimpleContentBecomesParagraph ==
  variant \in {"sdk", "simple"} => \A k \in AppendCalls : AppendRule(k)

\* the SDK server was given content with an empty children list and sent
\* one paragraph
C26_SdkWitness ==
  /\ variant = "sdk"
  /\ \E k \in AppendCalls :
       /\ lines[calls[k].line].args.children = ChildrenOf(<<>>)
       /\ calls[k].sent.children = ChildrenOf(<<ParagraphBlock("hello")>>)


\* C27: after create_page has built its request, the properties object of
\* the caller's argument bag holds the keys and values it was given, in the
\* SDK server and in the proxy variant, with or without an acting user and
\* with or without a title argument.
C27_CallerBagUntouched ==
  variant \in {"sdk", "proxy"} =>
    \A k \in DOMAIN calls :
      lines[calls[k].line].args.action = "create_page" =>
        calls[k].bag = lines[calls[k].line].args.properties

\* with an acting user configured the SDK server works on a copy
C27_SdkWithUserBagUntouched ==
  (variant = "sdk" /\ Truthy(notionUserId)) =>
    \A k \in DOMAIN calls :
      lines[calls[k].line].args.action = "create_page" =>
        calls[k].bag = lines[calls[k].line].args.properties

\* the SDK server, acting user configured, folded a title into the request
\* and left the caller's properties without it
C27_SdkWitness ==
  /\ variant = "sdk" /\ notionUserId = "ME"
  /\ \E k \in DOMAIN calls :
       LET a == lines[calls[k].line].args IN
       /\ a.action = "create_page" /\ Truthy(a.title)
       /\ a.properties.def /\ "title" \notin DOMAIN a.properties.val
       /\ "title" \in DOMAIN calls[k].sent.properties.val
       /\ calls[k].bag = a.properties

\* the calls that hand a message to the Gmail client
MessageCalls ==
  {k \in DOMAIN calls :
     calls[k].op \in {"users.messages.send", "users.drafts.create"}}

\* the encoded form the structured fields of a message stand for
EncodedOf(a) ==
  CASE MailFields(a) = MailFields(MailSimple) -> EncodedSimple
    [] MailFields(a) = MailFields(MailFull) -> EncodedFull
    [] MailFields(a) = MailFields(GoogleNoArgs) -> EncodedEmpty

\* C28: send_message and create_draft hand a non-empty raw value to the
\* Gmail client unchanged, whatever to, cc, bcc, subject and body hold; the
\* encoded form of the structured fields is sent exactly when raw is absent
\* or the empty string.
C28_RawSentUnchanged ==
  variant = "google" =>
    \A k \in MessageCalls :
      LET a == lines[calls[k].line].args
      IN /\ a.action \in {"send_message", "create_draft"}
         /\ calls[k].op = (IF a.action = "send_message"
                           THEN "users.messages.send"
                           ELSE "users.drafts.create")
         /\ a.raw \notin {UNDEF, ""} => calls[k].sent.raw = a.raw
         /\ a.raw \in {UNDEF, ""} => calls[k].sent.raw = EncodedOf(a)
         /\ EncodedOf(a) \notin {UNDEF, "", "cmF3"}

\* C28 witness: a message with recipients, subject and body and the raw
\* value "cmF3" was sent as "cmF3"
C28_Witness ==
  /\ variant = "google"
  /\ \E k \in MessageCalls :
       /\ calls[k].op = "users.messages.send"
       /\ lines[calls[k].line].args = [MailFull EXCEPT !.raw = "cmF3",
                                                      !.action = "send_message"]
       /\ calls[k].sent.raw = "cmF3"

\* an empty raw value was replaced by the encoded form of the fields
C28_EmptyRawWitness ==
  /\ variant = "google"
  /\ \E k \in MessageCalls :
       /\ calls[k].op = "users.drafts.create"
       /\ lines[calls[k].line].args.raw = ""
       /\ calls[k].sent.raw = EncodedSimple

\* the create_page calls given both a title argument and a "title" key
\* inside properties
TitledCreateCalls ==
  {k \in DOMAIN calls :
     LET a == lines[calls[k].line].args IN
     /\ calls[k].op = "pages.create" /\ a.action = "create_page"
     /\ Truthy(a.title)
     /\ a.properties.def /\ "title" \in DOMAIN a.properties.val}

\* the request of call k carries the caller's properties.title: the value
\* as given, or that value with the acting user filled into its empty
\* people list
CallerTitleKept(k) ==
  LET given == lines[calls[k].line].args.properties.val["title"]
      props == calls[k].sent.properties
  IN /\ props.def /\ "title" \in DOMAIN props.val
     /\ \/ props.val["title"] = given
        \/ /\ given.hasPeople /\ given.isArray /\ given.people = <<>>
           /\ props.val["title"] = [given EXCEPT !.people = <<notionUserId>>]

\* C29: in index-sdk.ts, index.ts and index-simple.ts a create_page given
\* both a title argument and a "title" key inside properties sends the
\* caller's properties.title, never the value built from the title argument.
C29_CallerTitleWins ==
  variant \in {"sdk", "index", "simple"} =>
    \A k \in TitledCreateCalls : CallerTitleKept(k)

\* index-sdk.ts and index.ts keep the caller's properties.title
C29_SdkIndexCallerTitleWins ==
  variant \in {"sdk", "index"} =>
    \A k \in TitledCreateCalls : CallerTitleKept(k)

\* index.ts sent a create_page with the caller's title property although a
\* title argument was given
C29_IndexWitness ==
  /\ variant = "index"
  /\ \E k \in TitledCreateCalls :
       /\ lines[calls[k].line].args.title = "Fix bug"
       /\ lines[calls[k].line].args.properties.val["title"]
            = PropValue("object", FALSE, FALSE, <<>>, <<"select", "Open">>)
       /\ calls[k].sent.properties.val["title"]
            = PropValue("object", FALSE, FALSE, <<>>, <<"select", "Open">>)

\* the tool calls of the proxy variant, each with the proxy instance it
\* was made on
ProxyCalls == {k \in DOMAIN calls : calls[k].proxy # 0}

C30_OneInstance ==
  variant = "proxy" =>
    \A k1, k2 \in ProxyCalls : calls[k1].proxy = calls[k2].proxy

\* once an instance is cached, initProxy is not invoked again, and a
\* handler that did not initialize calls the cached instance
C30_CachedProxyReused ==
  [][(variant = "proxy" /\ notionProxy # 0) =>
       /\ initCalls' = initCalls
       /\ \A k \in DOMAIN calls' \ DOMAIN calls :
            stage[calls'[k].line] # "init" => calls'[k].proxy = notionProxy]_vars

\* a request read after the first initialization had completed was served
\* by the cached instance, with a single initProxy invocation
C30_CachedWitness ==
  /\ variant = "proxy" /\ initCalls = 1
  /\ \E k \in ProxyCalls :
       /\ calls[k].line # calls[k].proxy
       /\ calls[k].proxy = notionProxy

====
